---- MODULE Spec2Model ----
(***************************************************************************)
(* oview: the MCP protocol server (internal/mcp/server.go), its tool       *)
(* handler (internal/mcp, ToolHandler) and the chunks table they read,     *)
(* which the indexer (internal/indexer) writes.                            *)
(*                                                                         *)
(* Modelling conventions                                                   *)
(*  - A value of a JSON argument is a pair of fields: its type tag         *)
(*    ("none" when the key is absent, "str", "num", "other") and its value *)
(*    (a string field and an integer field are kept apart so that every    *)
(*    record of the model has one shape).                                  *)
(*  - The content of a fragment stands for its SHA-256 digest as well: two *)
(*    fragments have the same content_hash iff they have the same content. *)
(*  - Standard output is writable: json.Encoder.Encode fails only on a     *)
(*    write error, every response value being JSON-encodable.              *)
(*  - PostgreSQL is modelled by what the statements of the code do there:  *)
(*    WHERE keeps the rows for which the condition is TRUE (a comparison   *)
(*    with NULL is not), LIMIT n keeps the first n rows and is an error    *)
(*    for n < 0, UNION ALL appends its second branch to its first, and a   *)
(*    query without ORDER BY returns rows in an order the store chooses.   *)
(***************************************************************************)
EXTENDS Integers, Sequences, FiniteSets, TLC

VARIABLES
    pc,         \* Server.Run: "start", "scan", "handle", "done", "failed"
    line,       \* the input line Run is processing (NoLine between lines)
    nread,      \* number of lines scanner.Scan has delivered
    nwritten,   \* number of response lines written to standard output
    resp,       \* the response written for the line under processing
    runErr,     \* the error Run returned ("" while running or on a nil return)
    db,         \* ToolHandler.db: "nil" or "open"
    generator,  \* ToolHandler.generator: "nil" or the provider it was built for
    provider,   \* projectConfig.Embeddings.Provider
    apiKey,     \* whether OPENAI_API_KEY or Embeddings.APIKey is set
    storeUp,    \* whether PostgreSQL answers
    chunks,     \* the rows of table chunks
    wire,       \* what a reader of standard output has seen: the failure
                \* class, cause and code of each error response written
                \* (kept by SpecWire only)
    scan,       \* scanFiles: the configuration of the last call and its result
    cfile,      \* Chunker: the file handed to ChunkFile (NoFile before)
    cout,       \* Chunker: the fragments ChunkFile returned
    emb,        \* Generator: the last call of Embed and what it returned
    idx,        \* Indexer: its fields and the locals of Index
    disk,       \* the files of the project directory that scanFiles finds
    saved,      \* the content of stats.json and manifest.json
    hist,       \* what the indexing runs did (history, for the claims)
    now         \* the clock of the store (CURRENT_TIMESTAMP)

\* The variables of the chunker, the generators and the indexer, which the
\* server leaves alone.
xvars == <<scan, cfile, cout, emb, idx, disk, saved, hist, now>>

\* The variables of the server.
svars == <<pc, line, nread, nwritten, resp, runErr, db, generator, provider,
           apiKey, wire>>

vars == <<pc, line, nread, nwritten, resp, runErr, db, generator, provider,
          apiKey, storeUp, chunks, wire, scan, cfile, cout, emb, idx, disk, saved,
          hist, now>>

(***************************************************************************)
(* Bounds of the model.                                                    *)
(***************************************************************************)
\* Number of input lines one run of the server reads.
MaxLines == 3
\* Number of lines of a file handed to the chunker.
MaxFileLines == 4
\* Number of indexing runs.
MaxRuns == 2
\* Last value of the clock of the store.
MaxClock == 1

\* The number of include paths of a configuration.
MaxIncludes == 2

(***************************************************************************)
(* Program constants.                                                      *)
(***************************************************************************)
\* bufio.Scanner's default token limit (bufio.NewScanner, no Buffer call).
MaxScanTokenSize == 65536
DefaultSearchLimit == 5
MaxSearchLimit == 20
DefaultContextLimit == 3
CodeMethodNotFound == -32601
CodeInvalidParams == -32602
CodeToolError == -32000
CodeInternal == -32603
\* DefaultRAGConfig: the MaxSize of the chunking rules; chunkDocument's size
\* for text files.
PHPMaxSize == 2000
JavaScriptMaxSize == 2000
TwigMaxSize == 1500
YAMLMaxSize == 1000
GenericMaxSize == 1500
TextMaxSize == 1500
\* The number of bytes of a text the remote generators send at most, and the
\* dimension NewStubGenerator takes for 0.
MaxEmbedChars == 30000
DefaultStubDimension == 1536

\* SQL NULL, as a column value.
Null == "<NULL>"

\* nullString: "" is stored as NULL.
nullString(s) == IF s = "" THEN Null ELSE s

\* COALESCE(col, '').
Coalesce(v) == IF v = Null THEN "" ELSE v

(***************************************************************************)
(* The projects and the fragments their files hold.                        *)
(***************************************************************************)
\* h.projectConfig.ProjectID of the server.
ProjectID == "p1"
OtherProject == "p2"
Projects == {ProjectID, OtherProject}

\* A Chunk as the chunker hands it to storeChunk.
Chunk(path, symbol, content) ==
    [path |-> path, symbol |-> symbol, content |-> content]

\* The fragments of the files of each project: in p1, three fragments of
\* a.yaml (two sections named by their key and the lines before the first
\* key, which chunkYAML emits without symbol) and two of b.yaml, which repeat
\* the content of fragments of a.yaml; p2 holds a fragment with the content
\* of one of p1.
ChunksOf(p) ==
    IF p = ProjectID
    THEN { Chunk("a.yaml", "foo", "c1"), Chunk("a.yaml", "bar", "c2"),
           Chunk("a.yaml", "", "c3"), Chunk("b.yaml", "foo", "c1"),
           Chunk("b.yaml", "", "c2") }
    ELSE { Chunk("x.go", "foo", "c1") }

\* The vector a generator returns for a text, named by the model and the
\* text it was computed for.
Embedding(model, content) == << model, content >>

\* A row of table chunks, inserted at time t by an indexer of project p whose
\* embedding model is model (the columns the model reads; content_hash is
\* content, see above).
Row(p, c, model, t) ==
    [project_id |-> p, path |-> c.path, symbol |-> nullString(c.symbol),
     content |-> c.content, embedding |-> Embedding(model, c.content),
     embedding_model |-> model, created_at |-> t, updated_at |-> t]

\* Every sequence that lists each element of S once: the orders in which the
\* store can return the rows of a table.
Perms(S) ==
    { f \in [1..Cardinality(S) -> S] : \A i, j \in DOMAIN f : i # j => f[i] # f[j] }

\* The first n elements of s (LIMIT n, n >= 0).
Take(s, n) == IF n >= Len(s) THEN s ELSE SubSeq(s, 1, n)

\* Whether x is an element of sequence s.
InSeq(x, s) == \E i \in DOMAIN s : s[i] = x

(***************************************************************************)
(* Input lines.                                                            *)
(***************************************************************************)
\* The arguments object of a tools/call request.
Args(queryT, query, limitT, limit, pathT, path, symbolT, symbol) ==
    [queryT |-> queryT, query |-> query, limitT |-> limitT, limit |-> limit,
     pathT |-> pathT, path |-> path, symbolT |-> symbolT, symbol |-> symbol]

NoArgs == Args("none", "", "none", 0, "none", "", "none", "")

\* An input line: json tells whether json.Unmarshal into MCPRequest succeeds
\* ("ok") or fails ("bad", which includes the empty line);
\* params is "none" (absent or null), "bad" (a JSON value that does not
\* unmarshal into {name string, arguments object}) or "obj".
Line(json, method, params, name, args) ==
    [json |-> json, method |-> method, params |-> params, name |-> name,
     args |-> args]

\* No line under processing.
NoLine == Line("none", "", "none", "", NoArgs)

BadLine == Line("bad", "", "none", "", NoArgs)

SearchArgs ==
    { Args("none", "", "none", 0, "none", "", "none", ""),
      Args("other", "", "none", 0, "none", "", "none", ""),
      Args("str", "", "none", 0, "none", "", "none", "") }
    \cup { Args("str", "q", "none", 0, "none", "", "none", "") }
    \cup { Args("str", "q", "num", n, "none", "", "none", "") : n \in {-1, 0, 2, 25} }

ContextArgs ==
    { Args("none", "", "none", 0, "none", "", "none", ""),
      Args("none", "", "none", 0, "str", "", "none", "") }
    \cup { Args("none", "", "none", 0, "str", "a.yaml", "none", ""),
           Args("none", "", "none", 0, "str", "a.yaml", "str", "foo"),
           Args("none", "", "none", 0, "str", "b.yaml", "str", "foo") }
    \cup { Args("none", "", "num", n, "str", "a.yaml", st[1], st[2]) :
             n \in {-1, 1, 2}, st \in {<<"none", "">>, <<"str", "foo">>} }

Lines ==
    { BadLine }
    \cup { Line("ok", m, "none", "", NoArgs) :
             m \in {"initialize", "tools/list", "resources/list", "tools/call"} }
    \cup { Line("ok", "tools/call", "bad", "", NoArgs),
           Line("ok", "tools/call", "obj", "delete_all", NoArgs),
           Line("ok", "tools/call", "obj", "project_info", NoArgs) }
    \cup { Line("ok", "tools/call", "obj", "search", a) : a \in SearchArgs }
    \cup { Line("ok", "tools/call", "obj", "get_context", a) : a \in ContextArgs }

\* Lengths of an input line, in bytes, without its newline.
LineLens == {0, 120, MaxScanTokenSize - 1, MaxScanTokenSize, 2 * MaxScanTokenSize}

(***************************************************************************)
(* Responses.                                                              *)
(***************************************************************************)
\* An MCPResponse. kind is "result" or "error" (which of Result and Error is
\* set); code and msg are Error.Code and the leading text of Error.Message
\* (0 and "" for a result). tool, path, symbol, rows, status and chunk_count
\* are the payload of a tool result. The other fields record what the handling of the request
\* did: line is the number of the input line answered, contacted the
\* externals called ("provider", "store"), queried whether a SELECT with a
\* LIMIT was sent to the store and storeLimit the value of that LIMIT.
BaseResp ==
    [kind |-> "none", line |-> 0, id |-> 0, code |-> 0, msg |-> "",
     tool |-> "", path |-> "", symbol |-> "", rows |-> <<>>,
     status |-> "", chunk_count |-> 0,
     contacted |-> {}, queried |-> FALSE, storeLimit |-> 0]

NoResp == BaseResp

\* What a handler of ToolHandler returns: the result or error, and the
\* handles of the ToolHandler after the call.
Out(r, d, g) == [r |-> r, db |-> d, generator |-> g]

\* The error a tool returns (an error value: it has no code yet).
ToolError(tool, msg, contacted) ==
    [BaseResp EXCEPT !.kind = "error", !.msg = msg, !.tool = tool,
                     !.contacted = contacted]

\* A SearchResult; ID, the row's primary key, is modelled by the row's unique
\* key (project_id, content_hash).
SearchResult(row) ==
    [id |-> <<row.project_id, row.content>>, path |-> row.path,
     symbol |-> Coalesce(row.symbol), content |-> row.content]

Results(rowSeq) == [i \in DOMAIN rowSeq |-> SearchResult(rowSeq[i])]

(***************************************************************************)
(* ToolHandler.  h is the pair of handles [db, generator] before the call; *)
(* e is what the call meets outside the process: e.up (the store answers), *)
(* e.embedOk (the provider returns a vector), e.ord (the rows of table     *)
(* chunks in the order the store ranks or returns them for this query),    *)
(* e.table (the rows of the table), e.provider and e.apiKey (the           *)
(* configuration).                                                         *)
(***************************************************************************)
\* initGenerator: [ok, generator].
initGenerator(prov, key) ==
    CASE prov = "openai" ->
           IF key THEN [ok |-> TRUE, generator |-> "openai"]
           ELSE [ok |-> FALSE, generator |-> "nil"]
      [] prov = "ollama" -> [ok |-> TRUE, generator |-> "ollama"]
      [] OTHER -> [ok |-> FALSE, generator |-> "nil"]

\* runIndex, lines 101-129: the embedder the index command builds for the
\* configured provider: [ok, generator].
runIndex(prov, key) ==
    CASE prov = "openai" ->
           IF key THEN [ok |-> TRUE, generator |-> "openai"]
           ELSE [ok |-> FALSE, generator |-> "nil"]
      [] prov = "ollama" -> [ok |-> TRUE, generator |-> "ollama"]
      [] prov = "stub" -> [ok |-> TRUE, generator |-> "stub"]
      [] OTHER -> [ok |-> FALSE, generator |-> "nil"]

\* connectDB: sql.Open, then Ping; h.db is set only when Ping succeeds.
connectDB(up) ==
    IF up THEN [ok |-> TRUE, db |-> "open"] ELSE [ok |-> FALSE, db |-> "nil"]

\* searchSimilarChunks without its WHERE project_id = $2.
searchSimilarChunks_NoProjectFilter(ord, up, limit) ==
    IF ~up \/ limit < 0
    THEN [ok |-> FALSE, rows |-> <<>>]
    ELSE [ok |-> TRUE, rows |-> Results(Take(ord, limit))]

\* searchSimilarChunks: SELECT ... WHERE project_id = $2 ORDER BY distance
\* LIMIT $3, over the rows ord (nearest first): [ok, rows].
searchSimilarChunks(ord, up, limit) ==
    IF ~up \/ limit < 0
    THEN [ok |-> FALSE, rows |-> <<>>]
    ELSE [ok |-> TRUE,
          rows |-> Results(Take(SelectSeq(ord,
                       LAMBDA r : r.project_id = ProjectID), limit))]

\* getFileContext with the branches of its UNION ALL exchanged.
getFileContext_OthersFirst(ord, up, path, symbol, limit) ==
    LET exact == SelectSeq(ord, LAMBDA r :
                    /\ r.project_id = ProjectID /\ r.path = path
                    /\ r.symbol # Null /\ r.symbol = symbol)
        other == SelectSeq(ord, LAMBDA r :
                    /\ r.project_id = ProjectID /\ r.path = path
                    /\ r.symbol # Null /\ r.symbol # symbol)
        all   == SelectSeq(ord, LAMBDA r :
                    r.project_id = ProjectID /\ r.path = path)
    IN  IF ~up \/ limit < 0
        THEN [ok |-> FALSE, rows |-> <<>>]
        ELSE IF symbol # ""
             THEN [ok |-> TRUE, rows |-> Results(Take(other \o exact, limit))]
             ELSE [ok |-> TRUE, rows |-> Results(Take(all, limit))]

\* getFileContext: with a symbol, the rows of the path with that symbol
\* UNION ALL the rows of the path with another symbol, LIMIT $4; without,
\* the rows of the path, LIMIT $3. [ok, rows].
getFileContext(ord, up, path, symbol, limit) ==
    LET exact == SelectSeq(ord, LAMBDA r :
                    /\ r.project_id = ProjectID /\ r.path = path
                    /\ r.symbol # Null /\ r.symbol = symbol)
        other == SelectSeq(ord, LAMBDA r :
                    /\ r.project_id = ProjectID /\ r.path = path
                    /\ r.symbol # Null /\ r.symbol # symbol)
        all   == SelectSeq(ord, LAMBDA r :
                    r.project_id = ProjectID /\ r.path = path)
    IN  IF ~up \/ limit < 0
        THEN [ok |-> FALSE, rows |-> <<>>]
        ELSE IF symbol # ""
             THEN [ok |-> TRUE, rows |-> Results(Take(exact \o other, limit))]
             ELSE [ok |-> TRUE, rows |-> Results(Take(all, limit))]

\* The check of the query without its query == "".
QueryMissing_NoEmptyCheck(args) == args.queryT # "str"

\* handleSearch, lines 567-568: query, ok := args["query"].(string);
\* !ok || query == "".
QueryMissing(args) == args.queryT # "str" \/ args.query = ""

\* handleSearch.
handleSearch(args, h, e) ==
    IF QueryMissing(args)
    THEN Out(ToolError("search", "query is required", {}), h.db, h.generator)
    ELSE
    LET limit == IF args.limitT = "num"
                 THEN IF args.limit > MaxSearchLimit THEN MaxSearchLimit
                      ELSE args.limit
                 ELSE DefaultSearchLimit
        g == IF h.generator = "nil" THEN initGenerator(e.provider, e.apiKey)
             ELSE [ok |-> TRUE, generator |-> h.generator]
        c == IF h.db = "nil" THEN connectDB(e.up)
             ELSE [ok |-> TRUE, db |-> h.db]
        s == searchSimilarChunks(e.ord, e.up, limit)
    IN  IF ~g.ok
        THEN Out(ToolError("search", "failed to initialize embeddings", {}),
                 h.db, h.generator)
        ELSE IF ~e.embedOk
        THEN Out(ToolError("search", "failed to generate embedding", {"provider"}),
                 h.db, g.generator)
        ELSE IF ~c.ok
        THEN Out(ToolError("search", "failed to connect to database",
                           {"provider", "store"}), h.db, g.generator)
        ELSE IF ~s.ok
        THEN Out([ToolError("search", "search failed", {"provider", "store"})
                    EXCEPT !.queried = TRUE, !.storeLimit = limit],
                 c.db, g.generator)
        ELSE Out([BaseResp EXCEPT !.kind = "result", !.tool = "search",
                    !.rows = s.rows, !.contacted = {"provider", "store"},
                    !.queried = TRUE, !.storeLimit = limit],
                 c.db, g.generator)

\* handleGetContext.
handleGetContext(args, h, e) ==
    IF args.pathT # "str" \/ args.path = ""
    THEN Out(ToolError("get_context", "path is required", {}), h.db, h.generator)
    ELSE
    LET symbol == IF args.symbolT = "str" THEN args.symbol ELSE ""
        limit == IF args.limitT = "num" THEN args.limit ELSE DefaultContextLimit
        c == IF h.db = "nil" THEN connectDB(e.up)
             ELSE [ok |-> TRUE, db |-> h.db]
        s == getFileContext(e.ord, e.up, args.path, symbol, limit)
    IN  IF ~c.ok
        THEN Out(ToolError("get_context", "failed to connect to database",
                           {"store"}), h.db, h.generator)
        ELSE IF ~s.ok
        THEN Out([ToolError("get_context", "failed to get context", {"store"})
                    EXCEPT !.queried = TRUE, !.storeLimit = limit],
                 c.db, h.generator)
        ELSE Out([BaseResp EXCEPT !.kind = "result", !.tool = "get_context",
                    !.path = args.path, !.symbol = symbol, !.rows = s.rows, !.contacted = {"store"},
                    !.queried = TRUE, !.storeLimit = limit],
                 c.db, h.generator)

\* handleProjectInfo returning the error of connectDB, as handleSearch and
\* handleGetContext do.
handleProjectInfo_FailsWhenDown(args, h, e) ==
    LET c == IF h.db = "nil" THEN connectDB(e.up)
             ELSE [ok |-> TRUE, db |-> h.db]
    IN  IF ~c.ok
        THEN Out(ToolError("project_info", "failed to connect to database",
                           {"store"}), h.db, h.generator)
        ELSE Out([BaseResp EXCEPT !.kind = "result", !.tool = "project_info",
                    !.status = IF e.up THEN "connected" ELSE "connection lost",
                    !.chunk_count =
                        IF e.up
                        THEN Cardinality({r \in e.table : r.project_id = ProjectID})
                        ELSE 0,
                    !.contacted = {"store"}],
                 c.db, h.generator)

\* handleProjectInfo: the status comes from connectDB when there is no handle
\* yet and from Ping otherwise; the count is asked whenever there is a handle
\* and is 0 when the query fails.
handleProjectInfo(args, h, e) ==
    LET c == IF h.db = "nil" THEN connectDB(e.up)
             ELSE [ok |-> TRUE, db |-> h.db]
        dbStatus == IF h.db = "nil"
                    THEN IF c.ok THEN "connected" ELSE "not connected"
                    ELSE IF e.up THEN "connected" ELSE "connection lost"
        chunkCount == IF c.db # "nil" /\ e.up
                      THEN Cardinality({r \in e.table : r.project_id = ProjectID})
                      ELSE 0
    IN  Out([BaseResp EXCEPT !.kind = "result", !.tool = "project_info",
                !.status = dbStatus, !.chunk_count = chunkCount,
                !.contacted = {"store"}],
            c.db, h.generator)

\* CallTool.
CallTool(name, args, h, e) ==
    CASE name = "search" -> handleSearch(args, h, e)
      [] name = "get_context" -> handleGetContext(args, h, e)
      [] name = "project_info" -> handleProjectInfo(args, h, e)
      [] OTHER -> Out(ToolError(name, "unknown tool", {}), h.db, h.generator)

(***************************************************************************)
(* Server.  n is the number of the line under processing; a client numbers *)
(* its requests by line, so n is also the id of a request that parsed.     *)
(***************************************************************************)
\* handleInitialize connecting to the store.
handleInitialize_Connects(n, h) ==
    Out([BaseResp EXCEPT !.kind = "result", !.id = n], "open", h.generator)

\* handleInitialize and handleToolsList: a static result.
handleInitialize(n, h) ==
    Out([BaseResp EXCEPT !.kind = "result", !.id = n], h.db, h.generator)

handleToolsList(n, h) ==
    Out([BaseResp EXCEPT !.kind = "result", !.id = n], h.db, h.generator)

\* handleToolsCall: params that do not unmarshal are answered -32602; absent
\* params unmarshal into the zero value (name "", arguments nil); an error of
\* the tool is answered -32000.
handleToolsCall(req, n, h, e) ==
    IF req.params = "bad"
    THEN Out([BaseResp EXCEPT !.kind = "error", !.id = n,
                 !.code = CodeInvalidParams, !.msg = "Invalid params"],
             h.db, h.generator)
    ELSE LET name == IF req.params = "obj" THEN req.name ELSE ""
             args == IF req.params = "obj" THEN req.args ELSE NoArgs
             o == CallTool(name, args, h, e)
         IN  IF o.r.kind = "error"
             THEN Out([o.r EXCEPT !.id = n, !.code = CodeToolError],
                      o.db, o.generator)
             ELSE Out([o.r EXCEPT !.id = n], o.db, o.generator)

\* handleRequest.
handleRequest(req, n, h, e) ==
    CASE req.method = "initialize" -> handleInitialize(n, h)
      [] req.method = "tools/list" -> handleToolsList(n, h)
      [] req.method = "tools/call" -> handleToolsCall(req, n, h, e)
      [] OTHER -> Out([BaseResp EXCEPT !.kind = "error", !.id = n,
                          !.code = CodeMethodNotFound,
                          !.msg = "Method not found"],
                      h.db, h.generator)

\* sendError with the code of invalid params.
sendError_ParamsCode(msg) ==
    [BaseResp EXCEPT !.kind = "error", !.code = CodeInvalidParams, !.msg = msg]

\* sendError: the response to a line that is no JSON request; it has no id.
sendError(msg) ==
    [BaseResp EXCEPT !.kind = "error", !.code = CodeInternal, !.msg = msg]

\* The tools with search sending a DELETE of the project's rows.
Statement_SearchDeletes(name) ==
    CASE name = "search" -> "DELETE"
      [] name \in {"get_context", "project_info"} -> "SELECT"
      [] OTHER -> ""

\* The SQL statement a tool sends to the store: db.Query of
\* searchSimilarChunks and getFileContext, db.QueryRow of handleProjectInfo.
Statement(name) ==
    CASE name \in {"search", "get_context", "project_info"} -> "SELECT"
      [] OTHER -> ""

\* The table after the store ran a statement on the rows of project p.
Execute(table, stmt, p) ==
    CASE stmt = "DELETE" -> { r \in table : r.project_id # p }
      [] OTHER -> table

(***************************************************************************)
(* Chunker.  A text is the sequence of its lines, as strings.Split(text,   *)
(* "\n") lists them: it has at least one line, the empty text is one empty *)
(* line, and a text that ends with a newline has an empty last line.  A    *)
(* line is described by what the chunker asks of it: ind, the number of    *)
(* spaces it starts with; body, the number of bytes after them (a line has *)
(* no trailing spaces, so body = 0 is an empty or whitespace-only line);   *)
(* colon, whether it contains ':'; kind, which pattern of the chunker it   *)
(* matches ("class": the class pattern of chunkPHP, "func": its function   *)
(* pattern, "heading": the heading pattern of chunkMarkdown, "block": a    *)
(* line that starts with a block marker of chunkTwig, "comment": a line    *)
(* that starts with '#', "text": none); name, the name the pattern         *)
(* captures, or the trimmed text before the first ':'.  A fragment holds   *)
(* its path, symbol and content (Language, Component and Type are pure     *)
(* functions of the path and are not modelled).                            *)
(***************************************************************************)
FileLine(kind, name, ind, body, colon) ==
    [kind |-> kind, name |-> name, ind |-> ind, body |-> body, colon |-> colon]

Blank(ind) == FileLine("text", "", ind, 0, FALSE)
Text(ind, body) == FileLine("text", "", ind, body, FALSE)
Key(ind, name, body) == FileLine("text", name, ind, body, TRUE)
ClassLine(name, body) == FileLine("class", name, 0, body, FALSE)
FuncLine(ind, name, body) == FileLine("func", name, ind, body, FALSE)
Heading(name, body) == FileLine("heading", name, 0, body, FALSE)
BlockLine(name, body) == FileLine("block", name, 0, body, FALSE)
CommentLine(name, body) == FileLine("comment", name, 0, body, name # "")

\* The text "".
EmptyText == << Blank(0) >>

\* len(line).
LineLen(l) == l.ind + l.body

RECURSIVE SumLen(_)
SumLen(t) == IF t = <<>> THEN 0 ELSE LineLen(Head(t)) + SumLen(Tail(t))

\* len(text): the bytes of the lines and the newlines between them.
TextLen(t) == SumLen(t) + Len(t) - 1

\* strings.TrimSpace: the empty and whitespace-only lines at both ends go,
\* and so do the spaces the first remaining line starts with.
TrimSpace(t) ==
    LET nb == { i \in DOMAIN t : t[i].body > 0 }
    IN  IF nb = {} THEN EmptyText
        ELSE LET a == CHOOSE i \in nb : \A j \in nb : i <= j
                 b == CHOOSE i \in nb : \A j \in nb : j <= i
                 s == SubSeq(t, a, b)
             IN  [s EXCEPT ![1].ind = 0]

\* text[start of line i : start of line j], j = Len(t) + 1 standing for
\* len(text): the lines i..j-1, with the newline that ends line j-1 when
\* line j exists.
Slice(t, i, j) ==
    IF j > Len(t) THEN SubSeq(t, i, Len(t))
    ELSE SubSeq(t, i, j - 1) \o << Blank(0) >>

\* The lines bufio.Scanner delivers: those of strings.Split, without the
\* empty line after the last newline (or of the empty text).
ScanLines(t) ==
    IF LineLen(t[Len(t)]) = 0 THEN SubSeq(t, 1, Len(t) - 1) ELSE t

\* A strings.Builder to which WriteString(line + "\n") was applied for each
\* line of buf: its Len() and its String().
BuilderLen(buf) == SumLen(buf) + Len(buf)
BuilderString(buf) == buf \o << Blank(0) >>

\* chunkBySize's test with the line left out of the sum.
ChunkFull_BeforeLine(buf, l, maxSize) == BuilderLen(buf) > maxSize

\* chunkBySize, line 426: the line no longer fits the fragment being built.
ChunkFull(buf, l, maxSize) == BuilderLen(buf) + LineLen(l) > maxSize

\* chunkBySize, lines 425-452: the loop over the lines from line i on, and
\* the last fragment.
RECURSIVE BySizeLoop(_, _, _, _, _, _, _)
BySizeLoop(path, lines, i, buf, chunkNum, out, maxSize) ==
    IF i > Len(lines)
    THEN IF BuilderLen(buf) > 0
         THEN Append(out, Chunk(path, "chunk-" \o ToString(chunkNum),
                                TrimSpace(BuilderString(buf))))
         ELSE out
    ELSE IF ChunkFull(buf, lines[i], maxSize)
         THEN BySizeLoop(path, lines, i + 1, << lines[i] >>, chunkNum + 1,
                         Append(out, Chunk(path, "chunk-" \o ToString(chunkNum),
                                           TrimSpace(BuilderString(buf)))),
                         maxSize)
         ELSE BySizeLoop(path, lines, i + 1, Append(buf, lines[i]), chunkNum,
                         out, maxSize)

\* chunkBySize.
chunkBySize(path, content, maxSize) ==
    IF TextLen(content) <= maxSize
    THEN << Chunk(path, "", content) >>
    ELSE BySizeLoop(path, content, 1, <<>>, 0, <<>>, maxSize)

\* The elements of a set of numbers, in increasing order: the matches of a
\* pattern, as FindAllStringSubmatchIndex lists them.
RECURSIVE SortedSeq(_)
SortedSeq(S) ==
    IF S = {} THEN <<>>
    ELSE LET m == CHOOSE x \in S : \A y \in S : x <= y
         IN  << m >> \o SortedSeq(S \ {m})

\* Where the match of functionRegex for the function line i starts: its
\* leading \s* takes the empty and whitespace-only lines right before it.
FuncStart(t, i) ==
    CHOOSE j \in 1..i :
        /\ \A k \in j..(i - 1) : t[k].body = 0
        /\ (j > 1 => t[j - 1].body > 0)

\* chunkPHP, lines 103-133: the functions of a class, from the j-th on.
RECURSIVE PHPFuncChunks(_, _, _, _, _, _)
PHPFuncChunks(path, classContent, className, funcMatches, j, maxSize) ==
    IF j > Len(funcMatches) THEN <<>>
    ELSE LET funcStartIdx == FuncStart(classContent, funcMatches[j])
             funcEndIdx == IF j < Len(funcMatches)
                           THEN FuncStart(classContent, funcMatches[j + 1])
                           ELSE Len(classContent) + 1
             funcContent == Slice(classContent, funcStartIdx, funcEndIdx)
             symbol == className \o "::" \o classContent[funcMatches[j]].name
             subChunks == chunkBySize(path, funcContent, maxSize)
         IN  (IF TextLen(funcContent) <= maxSize
              THEN << Chunk(path, symbol, TrimSpace(funcContent)) >>
              ELSE [k \in DOMAIN subChunks |->
                      [subChunks[k] EXCEPT
                         !.symbol = symbol \o "#" \o ToString(k - 1)]])
             \o PHPFuncChunks(path, classContent, className, funcMatches,
                              j + 1, maxSize)

\* chunkPHP, lines 78-135: the classes, from the i-th on.
RECURSIVE PHPClassChunks(_, _, _, _, _)
PHPClassChunks(path, content, classMatches, i, maxSize) ==
    IF i > Len(classMatches) THEN <<>>
    ELSE LET endIdx == IF i < Len(classMatches) THEN classMatches[i + 1]
                       ELSE Len(content) + 1
             className == content[classMatches[i]].name
             classContent == Slice(content, classMatches[i], endIdx)
             funcMatches == SortedSeq({ k \in DOMAIN classContent :
                                          classContent[k].kind = "func" })
         IN  (IF Len(funcMatches) = 0 \/ TextLen(classContent) < maxSize
              THEN << Chunk(path, className, TrimSpace(classContent)) >>
              ELSE PHPFuncChunks(path, classContent, className, funcMatches,
                                 1, maxSize))
             \o PHPClassChunks(path, content, classMatches, i + 1, maxSize)

\* chunkPHP with its class pattern matching nothing.
chunkPHP_NoClasses(path, content, maxSize) ==
    chunkBySize(path, content, maxSize)

\* chunkPHP.
chunkPHP(path, content, maxSize) ==
    LET classMatches == SortedSeq({ i \in DOMAIN content :
                                      content[i].kind = "class" })
    IN  IF Len(classMatches) = 0
        THEN chunkBySize(path, content, maxSize)
        ELSE PHPClassChunks(path, content, classMatches, 1, maxSize)

\* The fragments of a text cut at the lines starts (the matches of a
\* pattern), each named by the name its line captures; what precedes the
\* first match is in no fragment.
CutAt(path, content, starts) ==
    [ i \in DOMAIN starts |->
        Chunk(path, content[starts[i]].name,
              TrimSpace(Slice(content, starts[i],
                              IF i < Len(starts) THEN starts[i + 1]
                              ELSE Len(content) + 1))) ]

\* chunkTwig.
chunkTwig(path, content, maxSize) ==
    LET matches == SortedSeq({ i \in DOMAIN content :
                                 content[i].kind = "block" })
    IN  IF TextLen(content) <= maxSize THEN << Chunk(path, "", content) >>
        ELSE IF Len(matches) = 0 THEN chunkBySize(path, content, maxSize)
        ELSE CutAt(path, content, matches)

\* chunkYAML, line 217, and chunkMakefile, line 260: the line starts a new
\* section.
TopLevelKey(l, makefile) ==
    /\ LineLen(l) > 0 /\ l.ind = 0 /\ l.colon
    /\ (makefile => l.kind # "comment")

\* chunkYAML, lines 214-245, and chunkMakefile, lines 257-288: the loop over
\* the lines from line i on, and the last section.
RECURSIVE SectionLoop(_, _, _, _, _, _, _)
SectionLoop(path, lines, i, buf, key, out, makefile) ==
    IF i > Len(lines)
    THEN IF BuilderLen(buf) > 0
         THEN Append(out, Chunk(path, key, TrimSpace(BuilderString(buf))))
         ELSE out
    ELSE IF TopLevelKey(lines[i], makefile)
         THEN SectionLoop(path, lines, i + 1, << lines[i] >>, lines[i].name,
                          IF BuilderLen(buf) > 0
                          THEN Append(out, Chunk(path, key,
                                         TrimSpace(BuilderString(buf))))
                          ELSE out,
                          makefile)
         ELSE SectionLoop(path, lines, i + 1, Append(buf, lines[i]), key,
                          out, makefile)

\* chunkYAML.
chunkYAML(path, content, maxSize) ==
    IF TextLen(content) <= maxSize
    THEN << Chunk(path, "", content) >>
    ELSE SectionLoop(path, ScanLines(content), 1, <<>>, "", <<>>, FALSE)

\* chunkMakefile.
chunkMakefile(path, content) ==
    SectionLoop(path, ScanLines(content), 1, <<>>, "", <<>>, TRUE)

\* chunkDockerCompose, lines 302-347: the loop over the lines from line i
\* on, and the last service.
RECURSIVE ComposeLoop(_, _, _, _, _, _, _)
ComposeLoop(path, lines, i, inServices, buf, name, out) ==
    IF i > Len(lines)
    THEN IF BuilderLen(buf) > 0
         THEN Append(out, Chunk(path, name, TrimSpace(BuilderString(buf))))
         ELSE out
    ELSE LET l == lines[i]
             service == l.ind \in {2, 3} /\ l.colon
             flushed == IF service /\ BuilderLen(buf) > 0
                        THEN Append(out, Chunk(path, name,
                                       TrimSpace(BuilderString(buf))))
                        ELSE out
         IN  IF l.ind = 0 /\ l.colon /\ l.name = "services"
             THEN ComposeLoop(path, lines, i + 1, TRUE, buf, name, out)
             ELSE IF inServices
             THEN ComposeLoop(path, lines, i + 1,
                              ~(LineLen(l) > 0 /\ l.ind = 0),
                              IF service THEN << l >> ELSE Append(buf, l),
                              IF service THEN l.name ELSE name,
                              flushed)
             ELSE ComposeLoop(path, lines, i + 1, FALSE, buf, name, out)

\* chunkDockerCompose.
chunkDockerCompose(path, content) ==
    ComposeLoop(path, ScanLines(content), 1, FALSE, <<>>, "", <<>>)

\* chunkMarkdown.
chunkMarkdown(path, content) ==
    LET matches == SortedSeq({ i \in DOMAIN content :
                                 content[i].kind = "heading" })
    IN  IF Len(matches) = 0 THEN << Chunk(path, "", content) >>
        ELSE CutAt(path, content, matches)

\* chunkDocument.
chunkDocument(path, content) ==
    IF path \in {"README.md"} THEN chunkMarkdown(path, content)
    ELSE chunkBySize(path, content, TextMaxSize)

\* strings.ToLower(filepath.Ext(path)) and filepath.Base(path), for the paths
\* of the model.
Ext(path) ==
    CASE path = "src/A.php" -> ".php"
      [] path = "templates/view.twig" -> ".twig"
      [] path \in {"a.yaml", "b.yaml", "compose.yaml"} -> ".yaml"
      [] path = "docker-compose.yml" -> ".yml"
      [] path = "src/app.js" -> ".js"
      [] path = "README.md" -> ".md"
      [] path = "notes.txt" -> ".txt"
      [] path \in {"x.go", "main.go"} -> ".go"
      [] OTHER -> ""

Base(path) ==
    CASE path = "src/A.php" -> "A.php"
      [] path = "templates/view.twig" -> "view.twig"
      [] path = "src/app.js" -> "app.js"
      [] OTHER -> path

\* ChunkFile: the first case of the switch that holds decides.
ChunkFile(path, content) ==
    CASE Ext(path) = ".php" -> chunkPHP(path, content, PHPMaxSize)
      [] Ext(path) = ".twig" -> chunkTwig(path, content, TwigMaxSize)
      [] Ext(path) \in {".yaml", ".yml"} ->
           chunkYAML(path, content, YAMLMaxSize)
      [] Ext(path) \notin {".php", ".twig", ".yaml", ".yml"}
           /\ Base(path) = "Makefile" -> chunkMakefile(path, content)
      [] Ext(path) \notin {".php", ".twig", ".yaml", ".yml"}
           /\ Base(path) \in {"docker-compose.yml", "docker-compose.yaml",
                              "compose.yml", "compose.yaml"} ->
           chunkDockerCompose(path, content)
      [] Ext(path) \in {".js", ".ts", ".jsx", ".tsx"} ->
           chunkBySize(path, content, JavaScriptMaxSize)
      [] Ext(path) \in {".md", ".txt"} -> chunkDocument(path, content)
      [] OTHER -> chunkBySize(path, content, GenericMaxSize)

(***************************************************************************)
(* The files handed to the chunker: every text of at most MaxFileLines     *)
(* lines over the lines of its file type.                                  *)
(***************************************************************************)
PHPLines ==
    { ClassLine("A", 20), FuncLine(4, "f1", 1200), FuncLine(4, "f2", 1200),
      FuncLine(4, "f1", 300), FuncLine(4, "f2", 300), Text(4, 2100),
      Blank(0) }

YAMLLines ==
    { Key(0, "a", 400), Key(0, "b", 400), Key(0, "c", 400), Key(0, "c", 10),
      Text(2, 300), Text(0, 3), Blank(0) }

MakefileLines ==
    { Key(0, "all", 10), Key(0, "build", 10), Key(0, "test", 10),
      Text(4, 20), CommentLine("# note", 12), Blank(0) }

ComposeLines ==
    { Key(0, "services", 9), Key(2, "web", 6), Key(2, "db", 5),
      Key(4, "image", 600), Key(0, "volumes", 8), Blank(0) }

MarkdownLines ==
    { Heading("Intro", 7), Heading("Usage", 7), Text(0, 40), Blank(0),
      Blank(2) }

TwigLines ==
    { BlockLine("head", 800), BlockLine("body", 800), Text(2, 700), Blank(0) }

PlainLines ==
    { Text(0, 700), Text(2, 700), Text(0, 2100), Text(0, 1), Blank(0),
      Blank(3) }

LinesFor(path) ==
    CASE path = "src/A.php" -> PHPLines
      [] path = "a.yaml" -> YAMLLines
      [] path = "Makefile" -> MakefileLines
      [] path \in {"docker-compose.yml", "compose.yaml"} -> ComposeLines
      [] path = "README.md" -> MarkdownLines
      [] path = "templates/view.twig" -> TwigLines
      [] OTHER -> PlainLines

ChunkerPaths ==
    { "src/A.php", "a.yaml", "Makefile", "docker-compose.yml", "compose.yaml",
      "README.md", "templates/view.twig", "src/app.js", "notes.txt",
      "main.go" }

\* The texts of 1..n lines over the set of lines S.
Texts(S, n) == UNION { [1..k -> S] : k \in 1..n }

File(path, content) == [path |-> path, content |-> content]

NoFile == File("", EmptyText)

\* What ChunkFile returned: nothing yet, or its fragments.
NoOut == [done |-> FALSE, chunks |-> <<>>]

(***************************************************************************)
(* Generator.  A text is given by its length in bytes and a vector by its  *)
(* number of components.  What the provider answers to a request is a      *)
(* record: fail (the request did not get an answer, or the OpenAI client   *)
(* returned an error), status (the HTTP status), decodes (the body is the  *)
(* JSON the response type decodes), data (the embeddings of the answer:    *)
(* Data of the OpenAI response, the one embedding of the Ollama response,  *)
(* which is empty when the body has no such field).                        *)
(***************************************************************************)
Answer(fail, status, decodes, data) ==
    [fail |-> fail, status |-> status, decodes |-> decodes, data |-> data]

NoAnswer == Answer(FALSE, 0, FALSE, <<>>)

\* What Embed returns: the error ("" for nil) and the vector; sent is the
\* length of the text handed to the provider.
EmbedResult(err, vec, sent) == [err |-> err, vec |-> vec, sent |-> sent]

\* NewStubGenerator.
NewStubGenerator(dimension) ==
    IF dimension = 0 THEN DefaultStubDimension ELSE dimension

\* Embed, lines 36-38 and 50-52: text[:30000] when the text is longer.
Truncate(text) == IF text > MaxEmbedChars THEN MaxEmbedChars ELSE text

\* StubGenerator.Embed: make([]float32, g.dimension), filled and normalised.
StubEmbed(dimension, text) == EmbedResult("", dimension, text)

\* OpenAIGenerator.Embed.
OpenAIEmbed(text, a) ==
    IF a.fail THEN EmbedResult("OpenAI API error", 0, Truncate(text))
    ELSE IF Len(a.data) = 0
    THEN EmbedResult("no embedding returned from OpenAI", 0, Truncate(text))
    ELSE EmbedResult("", a.data[1], Truncate(text))

\* OllamaGenerator.Embed.
OllamaEmbed(text, a) ==
    IF a.fail THEN EmbedResult("Ollama API request failed", 0, Truncate(text))
    ELSE IF a.status # 200
    THEN EmbedResult("Ollama API error", 0, Truncate(text))
    ELSE IF ~a.decodes
    THEN EmbedResult("failed to decode response", 0, Truncate(text))
    ELSE EmbedResult("", a.data[1], Truncate(text))

\* The generators: the stub, built by NewStubGenerator from the configured
\* dimension, and the two remote ones.
Generators ==
    { [kind |-> "stub", dimension |-> NewStubGenerator(d)] : d \in {0, 1, 384, 768} }
    \cup { [kind |-> k, dimension |-> 0] : k \in {"openai", "ollama"} }

\* Lengths of the texts embedded.
TextLens == {0, 1, MaxEmbedChars - 1, MaxEmbedChars, MaxEmbedChars + 1,
             2 * MaxEmbedChars}

\* Numbers of components of an embedding in an answer.
VecLens == {0, 1, 768, DefaultStubDimension}

\* The answers a provider can give.
Answers(kind) ==
    CASE kind = "openai" ->
           { Answer(TRUE, 0, FALSE, <<>>), Answer(FALSE, 200, TRUE, <<>>) }
           \cup { Answer(FALSE, 200, TRUE, << n >>) : n \in VecLens }
      [] kind = "ollama" ->
           { Answer(TRUE, 0, FALSE, <<>>), Answer(FALSE, 404, FALSE, << 0 >>),
             Answer(FALSE, 500, FALSE, << 0 >>),
             Answer(FALSE, 200, FALSE, << 0 >>) }
           \cup { Answer(FALSE, 200, TRUE, << n >>) : n \in VecLens }
      [] OTHER -> { NoAnswer }

\* Embed of generator g.
Embed(g, text, a) ==
    CASE g.kind = "stub" -> StubEmbed(g.dimension, text)
      [] g.kind = "openai" -> OpenAIEmbed(text, a)
      [] g.kind = "ollama" -> OllamaEmbed(text, a)

\* No call of Embed yet.
NoEmb ==
    [called |-> FALSE, g |-> [kind |-> "", dimension |-> 0], text |-> 0,
     answer |-> NoAnswer, out |-> EmbedResult("", 0, 0)]

(***************************************************************************)
(* Indexer.  idx holds the field embeddingModel of the Indexer and the     *)
(* locals of Index: pc ("idle" before a run; "clear", "file", "chunk"      *)
(* while it runs; "done" when Index returned its statistics, "failed" when *)
(* it returned an error), files (what scanFiles returned), fi (the         *)
(* position of the file loop), frags (the fragments of the file under      *)
(* processing), ci (the position of the fragment loop), storedCount, stats *)
(* and manifest.                                                           *)
(***************************************************************************)
Stats(filesIndexed, chunksStored) ==
    [FilesIndexed |-> filesIndexed, ChunksStored |-> chunksStored]

\* New: the indexer of project ProjectID, before any run.
NewIndexer(embeddingModel) ==
    [pc |-> "idle", embeddingModel |-> embeddingModel, files |-> <<>>,
     fi |-> 0, frags |-> <<>>, ci |-> 0, storedCount |-> 0,
     stats |-> Stats(0, 0), manifest |-> {}]

\* idx.embeddingModel: the model name of the configuration.
EmbeddingModels == {"stub", "nomic-embed-text"}

\* stats.json and manifest.json: nothing written yet.
NoSaved == [written |-> {}, stats |-> Stats(0, 0), manifest |-> {}]

\* The files scanFiles can find, and the text of each.
IndexPaths == {"a.yaml", "b.yaml", "main.go"}

FileText(path) ==
    CASE path = "a.yaml" -> << Key(0, "a", 600), Key(0, "b", 600) >>
      [] path = "b.yaml" -> << Key(0, "a", 600) >>
      [] OTHER -> << Text(0, 700) >>

\* What the run of number run left when it returned: the files it scanned,
\* whether none of its calls failed, and the content hashes and the number
\* of the rows of the project.
Snapshot(run, scanned, clean, table) ==
    LET rows == { q \in table : q.project_id = ProjectID }
    IN  [run |-> run, scanned |-> scanned, clean |-> clean,
         hashes |-> { r.content : r \in rows }, count |-> Cardinality(rows)]

\* The history of the runs: run, the number of runs started; scanned, the
\* files the current run scanned; clean, whether no call of the current run
\* failed so far; visited, readOK, handed and storedOK, the numbers of files
\* the loop reached, of files read, of fragments handed to storeChunk and of
\* fragments embedded and stored by the current run; cleared, the number of
\* times it cleared the rows of the project; okFiles, the files it
\* read; storedBy, the number of fragments it embedded and stored of each
\* file; indexed, the paths of the rows of the
\* project that any run stored; snaps, what the completed runs left.
NoHist ==
    [run |-> 0, scanned |-> {}, clean |-> TRUE, visited |-> 0, readOK |-> 0,
     handed |-> 0, storedOK |-> 0, cleared |-> 0, okFiles |-> {},
     storedBy |-> [p \in IndexPaths |-> 0], indexed |-> {}, snaps |-> {}]

(***************************************************************************)
(* scanFiles in detail.  A path is the sequence of its characters, where a *)
(* name of the project directory counts as one character, as does an       *)
(* extension (".php") and the separator "/".                               *)
(***************************************************************************)
\* strings.HasPrefix and strings.TrimSuffix(s, "/").
HasPrefix(s, prefix) ==
    Len(prefix) <= Len(s) /\ SubSeq(s, 1, Len(prefix)) = prefix

TrimSuffix(s) ==
    IF Len(s) > 0 /\ s[Len(s)] = "/" THEN SubSeq(s, 1, Len(s) - 1) ELSE s

\* filepath.Ext.
filepathExt(p) ==
    IF Len(p) > 0 /\ p[Len(p)] \in {".php", ".txt"} THEN p[Len(p)] ELSE ""

\* An entry of the project directory: its project-relative path and whether
\* it is a directory.
Entry(path, isDir) == [path |-> path, isDir |-> isDir]

\* The project directory, in the order filepath.Walk visits it (lexical): a
\* Makefile, a directory s with two files, a sub-directory t with one file
\* and a file whose name starts like the sub-directory's, a directory v.
Tree ==
    << Entry(<< "M" >>, FALSE),
       Entry(<< "s" >>, TRUE),
       Entry(<< "s", "/", "a", ".php" >>, FALSE),
       Entry(<< "s", "/", "b", ".txt" >>, FALSE),
       Entry(<< "s", "/", "t" >>, TRUE),
       Entry(<< "s", "/", "t", "/", "c", ".php" >>, FALSE),
       Entry(<< "s", "/", "t", "x", ".php" >>, FALSE),
       Entry(<< "v" >>, TRUE),
       Entry(<< "v", "/", "d", ".php" >>, FALSE) >>

\* A path os.Stat fails on with an error other than "does not exist".
Denied == << "x" >>

\* os.Stat of filepath.Join(projectPath, includePath): "file", "dir", "none"
\* (IsNotExist) or "error".
Stat(includePath) ==
    LET p == TrimSuffix(includePath)
    IN  IF \E i \in DOMAIN Tree : Tree[i].path = p
        THEN IF \E i \in DOMAIN Tree : Tree[i].path = p /\ Tree[i].isDir
             THEN "dir" ELSE "file"
        ELSE IF p = Denied THEN "error" ELSE "none"

\* Path p is directory d or lies below it.
Under(d, p) == p = d \/ HasPrefix(p, d \o << "/" >>)

\* The exclusion test that excludes nothing.
Excluded_Never(relPath, excludePaths) == FALSE

\* Lines 206-210 and 227-231: relPath starts with an exclude path, its
\* trailing "/" trimmed.
Excluded(relPath, excludePaths) ==
    \E x \in excludePaths : HasPrefix(relPath, TrimSuffix(x))

\* filepath.Walk(fullPath, ...), lines 197-235: the entries from position i
\* on; skipped holds the directories that returned SkipDir.
RECURSIVE WalkLoop(_, _, _, _, _)
WalkLoop(root, i, skipped, cfg, files) ==
    IF i > Len(Tree) THEN files
    ELSE LET e == Tree[i]
         IN  IF ~Under(root, e.path)
                \/ \E d \in skipped : Under(d, e.path)
             THEN WalkLoop(root, i + 1, skipped, cfg, files)
             ELSE IF e.isDir
             THEN IF Excluded(e.path, cfg.excludePaths)
                  THEN WalkLoop(root, i + 1, skipped \cup {e.path}, cfg, files)
                  ELSE WalkLoop(root, i + 1, skipped, cfg, files)
             ELSE IF cfg.extensions # {}
                     /\ filepathExt(e.path) \notin cfg.extensions
             THEN WalkLoop(root, i + 1, skipped, cfg, files)
             ELSE IF Excluded(e.path, cfg.excludePaths)
             THEN WalkLoop(root, i + 1, skipped, cfg, files)
             ELSE WalkLoop(root, i + 1, skipped, cfg, Append(files, e.path))

\* scanFiles, lines 178-240: the include paths from position i on.
RECURSIVE ScanLoop(_, _, _)
ScanLoop(cfg, i, files) ==
    IF i > Len(cfg.includePaths) THEN [ok |-> TRUE, files |-> files]
    ELSE LET includePath == cfg.includePaths[i]
             st == Stat(includePath)
         IN  CASE st = "none" -> ScanLoop(cfg, i + 1, files)
               [] st = "error" -> [ok |-> FALSE, files |-> << >>]
               [] st = "file" -> ScanLoop(cfg, i + 1, Append(files, includePath))
               [] OTHER -> ScanLoop(cfg, i + 1,
                              WalkLoop(TrimSuffix(includePath), 1, {}, cfg, files))

\* scanFiles of an indexer whose configuration is cfg: [ok, files].
ScanFiles(cfg) == ScanLoop(cfg, 1, << >>)

\* Indexing of the configuration: include_paths, exclude_paths, extensions.
IncludeChoices ==
    { << "s", "/" >>, << "s", "/", "t" >>, << "M" >>,
      << "s", "/", "a", ".php" >>, << "v" >>, << "n" >>, Denied }

ExcludeChoices == { << "v", "/" >>, << "s", "/", "t", "/" >> }

ExtensionChoices == { {}, {".php"}, {".php", ".txt"} }

ScanConfig(includePaths, excludePaths, extensions) ==
    [includePaths |-> includePaths, excludePaths |-> excludePaths,
     extensions |-> extensions]

ScanConfigs ==
    { ScanConfig(ip, ex, ext) :
        ip \in UNION { [1..n -> IncludeChoices] : n \in 0..MaxIncludes },
        ex \in SUBSET ExcludeChoices, ext \in ExtensionChoices }

\* No call of scanFiles yet.
NoScan ==
    [called |-> FALSE, cfg |-> ScanConfig(<< >>, {}, {}),
     out |-> [ok |-> FALSE, files |-> << >>]]

(***************************************************************************)
(* Server.Run.                                                             *)
(***************************************************************************)
Configs ==
    { <<"stub", FALSE>>, <<"openai", FALSE>>, <<"openai", TRUE>>,
      <<"ollama", FALSE>> }

Init ==
    /\ pc = "start"
    /\ line = NoLine
    /\ nread = 0
    /\ nwritten = 0
    /\ resp = NoResp
    /\ runErr = ""
    /\ db = "nil"
    /\ generator = "nil"
    /\ \E cfg \in Configs : provider = cfg[1] /\ apiKey = cfg[2]
    /\ storeUp \in BOOLEAN
    /\ chunks = {}
    /\ wire = {}
    /\ scan = NoScan
    /\ cfile = NoFile
    /\ cout = NoOut
    /\ emb = NoEmb
    /\ idx = NewIndexer("stub")
    /\ disk = {}
    /\ saved = NoSaved
    /\ hist = NoHist
    /\ now = 0

\* Run, lines 29-46: the configurations load and the handler is built.
RunStart ==
    /\ pc = "start"
    /\ pc' = "scan"
    /\ UNCHANGED <<line, nread, nwritten, resp, runErr, db, generator,
                   provider, apiKey, storeUp, chunks, wire>>
    /\ UNCHANGED xvars

\* Run, lines 31-39: a configuration does not load; Run returns the error.
RunStartFails ==
    /\ pc = "start"
    /\ pc' = "failed"
    /\ runErr' = "failed to load config"
    /\ UNCHANGED <<line, nread, nwritten, resp, db, generator, provider,
                   apiKey, storeUp, chunks, wire>>
    /\ UNCHANGED xvars

\* scanner.Scan delivers the next line, of n bytes.
ScanLine ==
    /\ pc = "scan"
    /\ nread < MaxLines
    /\ { n \in LineLens : n < MaxScanTokenSize } # {}
    /\ \E l \in Lines : line' = l
    /\ nread' = nread + 1
    /\ resp' = NoResp
    /\ pc' = "handle"
    /\ UNCHANGED <<nwritten, runErr, db, generator, provider, apiKey,
                   storeUp, chunks, wire>>
    /\ UNCHANGED xvars

\* The next line does not fit the scanner's buffer: Scan returns false with
\* bufio.ErrTooLong and Run returns "scanner error".
ScanTooLong ==
    /\ pc = "scan"
    /\ { n \in LineLens : n >= MaxScanTokenSize } # {}
    /\ pc' = "failed"
    /\ runErr' = "scanner error"
    /\ resp' = NoResp
    /\ UNCHANGED <<line, nread, nwritten, db, generator, provider, apiKey,
                   storeUp, chunks, wire>>
    /\ UNCHANGED xvars

\* The input stream ends: Scan returns false, Err is nil, Run returns nil.
ScanEOF ==
    /\ pc = "scan"
    /\ pc' = "done"
    /\ resp' = NoResp
    /\ UNCHANGED <<line, nread, nwritten, runErr, db, generator, provider,
                   apiKey, storeUp, chunks, wire>>
    /\ UNCHANGED xvars

\* Lines 52-55: the line is no JSON request; sendError, continue.
InvalidJSONStep ==
    /\ pc = "handle"
    /\ line.json = "bad"
    /\ resp' = [sendError("invalid JSON") EXCEPT !.line = nread]
    /\ nwritten' = nwritten + 1
    /\ line' = NoLine
    /\ pc' = "scan"
    /\ UNCHANGED <<nread, runErr, db, generator, provider, apiKey, storeUp,
                   chunks>>
    /\ UNCHANGED xvars

\* Lines 57-60: handleRequest, then Encode writes the response; the store
\* runs the statement of the tool when the handler reached it.
RequestStep ==
    /\ pc = "handle"
    /\ line.json = "ok"
    /\ \E embedOk \in (IF line.name = "search" THEN BOOLEAN ELSE {TRUE}),
          ord \in (IF line.name \in {"search", "get_context"}
                   THEN Perms(chunks) ELSE {<<>>}) :
         LET h == [db |-> db, generator |-> generator]
             e == [up |-> storeUp, embedOk |-> embedOk, ord |-> ord,
                   table |-> chunks, provider |-> provider, apiKey |-> apiKey]
             o == handleRequest(line, nread, h, e)
         IN  /\ resp' = [o.r EXCEPT !.line = nread]
             /\ db' = o.db
             /\ generator' = o.generator
             /\ chunks' = IF "store" \in o.r.contacted /\ o.db # "nil" /\ storeUp
                          THEN Execute(chunks, Statement(o.r.tool), ProjectID)
                          ELSE chunks
    /\ nwritten' = nwritten + 1
    /\ line' = NoLine
    /\ pc' = "scan"
    /\ UNCHANGED <<nread, runErr, provider, apiKey, storeUp>>
    /\ UNCHANGED xvars

\* Lines 52-55 without the sendError: the line is skipped unanswered.
HandleInvalidJSON_Silent ==
    /\ pc = "handle"
    /\ line.json = "bad"
    /\ line' = NoLine
    /\ pc' = "scan"
    /\ UNCHANGED <<nread, nwritten, resp, runErr, db, generator, provider,
                   apiKey, storeUp, chunks, wire>>
    /\ UNCHANGED xvars

HandleInvalidJSON == InvalidJSONStep /\ UNCHANGED wire

HandleRequest == RequestStep /\ UNCHANGED wire

(***************************************************************************)
(* The store and the indexer, outside the server process.                  *)
(***************************************************************************)
\* PostgreSQL stops answering, or answers again.
StoreDown ==
    /\ storeUp
    /\ storeUp' = FALSE
    /\ UNCHANGED <<pc, line, nread, nwritten, resp, runErr, db, generator,
                   provider, apiKey, chunks, wire>>
    /\ UNCHANGED xvars

StoreBack ==
    /\ ~storeUp
    /\ storeUp' = TRUE
    /\ UNCHANGED <<pc, line, nread, nwritten, resp, runErr, db, generator,
                   provider, apiKey, chunks, wire>>
    /\ UNCHANGED xvars

\* The INSERT of storeChunk without its ON CONFLICT clause, on a table
\* without the constraint unique_chunk.
upsert_PlainInsert(table, p, c, model, t) ==
    table \cup { Row(p, c, model, t) }

\* The table after the INSERT ... ON CONFLICT (project_id, content_hash) DO
\* UPDATE of storeChunk at time t: a row with the key of the new one gets the
\* new embedding, embedding_model and updated_at.
upsert(table, p, c, model, t) ==
    IF \E r \in table : r.project_id = p /\ r.content = c.content
    THEN { IF r.project_id = p /\ r.content = c.content
           THEN [r EXCEPT !.embedding = Embedding(model, c.content),
                          !.embedding_model = model,
                          !.updated_at = t]
           ELSE r : r \in table }
    ELSE table \cup { Row(p, c, model, t) }

\* clearExistingChunks deleting nothing.
clearExistingChunks_Nothing(table, p) == table

\* clearExistingChunks: DELETE FROM chunks WHERE project_id = $1.
clearExistingChunks(table, p) == { r \in table : r.project_id # p }

\* storeChunk returning nil when Embed fails.
storeChunk_IgnoresEmbedError(table, p, c, model, t, embedOk, up) ==
    IF up THEN [ok |-> TRUE, table |-> upsert(table, p, c, model, t)]
    ELSE [ok |-> TRUE, table |-> table]

\* storeChunk: Embed, then the INSERT; [ok, table].
storeChunk(table, p, c, model, t, embedOk, up) ==
    IF embedOk /\ up
    THEN [ok |-> TRUE, table |-> upsert(table, p, c, model, t)]
    ELSE [ok |-> FALSE, table |-> table]

\* Indexer.storeChunk of project p: Embed, then the INSERT; an error of
\* either leaves the table as it is.
StoreChunk ==
    /\ \E p \in Projects, embedOk \in BOOLEAN : \E c \in ChunksOf(p) :
         chunks' = storeChunk(chunks, p, c, idx.embeddingModel, now, embedOk,
                              storeUp).table
    /\ UNCHANGED <<pc, line, nread, nwritten, resp, runErr, db, generator,
                   provider, apiKey, storeUp, wire>>
    /\ UNCHANGED xvars

\* Indexer.clearExistingChunks of project p.
ClearExistingChunks ==
    /\ storeUp
    /\ \E p \in Projects : chunks' = clearExistingChunks(chunks, p)
    /\ UNCHANGED <<pc, line, nread, nwritten, resp, runErr, db, generator,
                   provider, apiKey, storeUp, wire>>
    /\ UNCHANGED xvars

(***************************************************************************)
(* Indexer.Index, step by step.                                            *)
(***************************************************************************)
\* The order in which scanFiles lists the files (filepath.Walk: lexical).
PathOrder == << "a.yaml", "b.yaml", "main.go" >>

\* scanFiles: the files of the project directory, in order.
scanFiles(d) == SelectSeq(PathOrder, LAMBDA p : p \in d)

\* The variables no step of Index changes.
nonIndexVars == <<svars, storeUp, scan, cfile, cout, emb, disk, now>>

\* Index, lines 80-93: a run starts; scanFiles returns the files, or fails.
IndexScan ==
    /\ idx.pc \in {"idle", "done", "failed"}
    /\ hist.run < MaxRuns
    /\ \E scanOk \in BOOLEAN :
         /\ idx' = [NewIndexer(idx.embeddingModel) EXCEPT
                      !.pc = IF scanOk THEN "clear" ELSE "failed",
                      !.files = IF scanOk THEN scanFiles(disk) ELSE <<>>]
         /\ hist' = [hist EXCEPT !.run = @ + 1,
                                 !.scanned = IF scanOk THEN disk ELSE {},
                                 !.clean = scanOk, !.visited = 0,
                                 !.readOK = 0, !.handed = 0, !.storedOK = 0,
                                 !.cleared = 0, !.okFiles = {},
                                 !.storedBy = [p \in IndexPaths |-> 0]]
    /\ UNCHANGED <<nonIndexVars, chunks, saved>>

\* Index without the call of clearExistingChunks.
IndexClear_Skipped ==
    /\ idx.pc = "clear"
    /\ idx' = [idx EXCEPT !.pc = "file", !.fi = 1]
    /\ UNCHANGED <<nonIndexVars, chunks, saved, hist>>

\* Index, lines 96-103: clearExistingChunks; its error ends the run.
IndexClear ==
    /\ idx.pc = "clear"
    /\ IF storeUp
       THEN /\ chunks' = clearExistingChunks(chunks, ProjectID)
            /\ idx' = [idx EXCEPT !.pc = "file", !.fi = 1]
            /\ hist' = [hist EXCEPT !.cleared = @ + 1]
       ELSE /\ chunks' = chunks
            /\ idx' = [idx EXCEPT !.pc = "failed"]
            /\ hist' = [hist EXCEPT !.clean = FALSE]
    /\ UNCHANGED <<nonIndexVars, saved>>

\* Index, lines 106-120: the next file is read and chunked; a file that
\* cannot be read is skipped.
IndexReadFile ==
    /\ idx.pc = "file"
    /\ idx.fi <= Len(idx.files)
    /\ \E readOk \in BOOLEAN :
         IF readOk
         THEN /\ idx' = [idx EXCEPT
                           !.pc = "chunk",
                           !.frags = ChunkFile(idx.files[idx.fi],
                                               FileText(idx.files[idx.fi])),
                           !.ci = 1, !.storedCount = 0]
              /\ hist' = [hist EXCEPT !.visited = @ + 1, !.readOK = @ + 1,
                                      !.okFiles = @ \cup {idx.files[idx.fi]}]
         ELSE /\ idx' = [idx EXCEPT !.fi = @ + 1]
              /\ hist' = [hist EXCEPT !.visited = @ + 1, !.clean = FALSE]
    /\ UNCHANGED <<nonIndexVars, chunks, saved>>

\* Index, lines 124-130: storeChunk of the next fragment; a fragment that
\* cannot be embedded or stored is skipped.
IndexStoreChunk ==
    /\ idx.pc = "chunk"
    /\ idx.ci <= Len(idx.frags)
    /\ \E embedOk \in BOOLEAN :
         LET c == idx.frags[idx.ci]
             s == storeChunk(chunks, ProjectID, c, idx.embeddingModel, now,
                             embedOk, storeUp)
         IN  /\ chunks' = s.table
             /\ idx' = [idx EXCEPT !.ci = @ + 1,
                                   !.storedCount = IF s.ok THEN @ + 1 ELSE @]
             /\ hist' = [hist EXCEPT
                           !.handed = @ + 1,
                           !.storedOK = IF embedOk /\ storeUp THEN @ + 1 ELSE @,
                           !.storedBy[c.path] =
                               IF embedOk /\ storeUp THEN @ + 1 ELSE @,
                           !.clean = @ /\ embedOk /\ storeUp,
                           !.indexed = IF embedOk /\ storeUp
                                       THEN @ \cup {c.path} ELSE @]
    /\ UNCHANGED <<nonIndexVars, saved>>

\* Index, lines 133-146: the statistics and the manifest take the file.
IndexFileDone ==
    /\ idx.pc = "chunk"
    /\ idx.ci > Len(idx.frags)
    /\ idx' = [idx EXCEPT
                 !.pc = "file",
                 !.stats = Stats(@.FilesIndexed + 1,
                                 @.ChunksStored + idx.storedCount),
                 !.manifest = @ \cup { [Path |-> idx.files[idx.fi],
                                        Chunks |-> idx.storedCount] },
                 !.fi = @ + 1, !.frags = <<>>, !.ci = 0, !.storedCount = 0]
    /\ UNCHANGED <<nonIndexVars, chunks, saved, hist>>

\* Index, lines 149-155: saveStats writes stats.json; its error ends the run.
IndexSaveStats ==
    /\ idx.pc = "file"
    /\ idx.fi > Len(idx.files)
    /\ \E writeOk \in BOOLEAN :
         IF writeOk
         THEN /\ saved' = [saved EXCEPT !.written = @ \cup {"stats.json"},
                                        !.stats = idx.stats]
              /\ idx' = [idx EXCEPT !.pc = "manifest"]
              /\ hist' = hist
         ELSE /\ saved' = saved
              /\ idx' = [idx EXCEPT !.pc = "failed"]
              /\ hist' = [hist EXCEPT !.clean = FALSE]
    /\ UNCHANGED <<nonIndexVars, chunks>>

\* Index, lines 157-161: saveManifest writes manifest.json; Index returns the
\* statistics, or the error of the write.
IndexSaveManifest ==
    /\ idx.pc = "manifest"
    /\ \E writeOk \in BOOLEAN :
         IF writeOk
         THEN /\ saved' = [saved EXCEPT !.written = @ \cup {"manifest.json"},
                                        !.manifest = idx.manifest]
              /\ idx' = [idx EXCEPT !.pc = "done"]
              /\ hist' = [hist EXCEPT
                            !.snaps = @ \cup { Snapshot(hist.run,
                                          hist.scanned, hist.clean, chunks) }]
         ELSE /\ saved' = saved
              /\ idx' = [idx EXCEPT !.pc = "failed"]
              /\ hist' = [hist EXCEPT !.clean = FALSE]
    /\ UNCHANGED <<nonIndexVars, chunks>>

\* Between two runs, a file of the project is deleted, or created.
DeleteFile ==
    /\ idx.pc \in {"idle", "done", "failed"}
    /\ hist.run < MaxRuns
    /\ \E p \in disk : disk' = disk \ {p}
    /\ UNCHANGED <<svars, storeUp, chunks, scan, cfile, cout, emb, idx, saved, hist,
                   now>>

CreateFile ==
    /\ idx.pc \in {"idle", "done", "failed"}
    /\ hist.run < MaxRuns
    /\ \E p \in IndexPaths \ disk : disk' = disk \cup {p}
    /\ UNCHANGED <<svars, storeUp, chunks, scan, cfile, cout, emb, idx, saved, hist,
                   now>>

\* New: an indexer is built for the configured embedding model.
New ==
    /\ idx.pc \in {"idle", "done", "failed"}
    /\ \E m \in EmbeddingModels \ {idx.embeddingModel} : idx' = NewIndexer(m)
    /\ UNCHANGED <<svars, storeUp, chunks, scan, cfile, cout, emb, disk, saved, hist,
                   now>>

\* Time passes.
Tick ==
    /\ now < MaxClock
    /\ now' = now + 1
    /\ UNCHANGED <<svars, storeUp, chunks, scan, cfile, cout, emb, idx, disk, saved,
                   hist>>

\* Generator.Embed is called on a text; the provider answers.
CallEmbed ==
    /\ \E g \in Generators, text \in TextLens :
         \E a \in Answers(g.kind) :
            emb' = [called |-> TRUE, g |-> g, text |-> text, answer |-> a,
                    out |-> Embed(g, text, a)]
    /\ UNCHANGED <<svars, storeUp, chunks, scan, cfile, cout, idx, disk, saved, hist,
                   now>>

\* scanFiles is called by an indexer of some configuration.
CallScanFiles ==
    /\ ~scan.called
    /\ \E cfg \in ScanConfigs :
         scan' = [called |-> TRUE, cfg |-> cfg, out |-> ScanFiles(cfg)]
    /\ UNCHANGED <<svars, storeUp, chunks, cfile, cout, emb, idx, disk, saved,
                   hist, now>>

Next ==
    \/ RunStart
    \/ RunStartFails
    \/ ScanLine
    \/ ScanTooLong
    \/ ScanEOF
    \/ HandleInvalidJSON
    \/ HandleRequest
    \/ StoreDown
    \/ StoreBack
    \/ StoreChunk
    \/ ClearExistingChunks

Spec == Init /\ [][Next]_vars

(***************************************************************************)
(* SpecWire: the server alone, with a reader of its standard output that   *)
(* records the failure class, the cause and the code of every error        *)
(* response.                                                               *)
(***************************************************************************)
\* The failure class of an error response: "parse" (the line is no JSON
\* request), "method" (unknown method), "params" (tools/call params that do
\* not unmarshal), "tool" (the tool returned an error).
FailureClass(r) ==
    CASE r.msg = "invalid JSON" -> "parse"
      [] r.msg = "Method not found" -> "method"
      [] r.msg = "Invalid params" -> "params"
      [] OTHER -> "tool"

\* The cause of an error response: "caller" for a request the client got
\* wrong (missing or empty required argument, unknown tool name, missing
\* params, which reach CallTool as the tool ""), "downstream" for a failure
\* of the embedding provider or of the store connection, "other" else.
Cause(r) ==
    CASE r.msg \in {"query is required", "path is required", "unknown tool"}
           -> "caller"
      [] r.msg \in {"failed to generate embedding",
                    "failed to connect to database"} -> "downstream"
      [] OTHER -> "other"

WireEntry(r) ==
    [class |-> FailureClass(r), cause |-> Cause(r), code |-> r.code]

Recorded ==
    wire' = IF resp'.kind = "error" THEN wire \cup { WireEntry(resp') }
            ELSE wire

RecordInvalidJSON == InvalidJSONStep /\ Recorded

RecordRequest == RequestStep /\ Recorded

NextWire ==
    \/ RunStart
    \/ RunStartFails
    \/ ScanLine
    \/ ScanTooLong
    \/ ScanEOF
    \/ RecordInvalidJSON
    \/ RecordRequest
    \/ StoreDown
    \/ StoreBack

SpecWire == Init /\ [][NextWire]_vars

(***************************************************************************)
(* SpecChunk: the chunker alone.  ChunkFile is called on a file of the     *)
(* bounded set of files.                                                   *)
(***************************************************************************)
\* The server is not running.
ServerOff ==
    /\ pc = "start"
    /\ line = NoLine
    /\ nread = 0
    /\ nwritten = 0
    /\ resp = NoResp
    /\ runErr = ""
    /\ db = "nil"
    /\ generator = "nil"
    /\ provider = "stub"
    /\ apiKey = FALSE
    /\ wire = {}

InitChunk ==
    /\ ServerOff
    /\ storeUp = TRUE
    /\ chunks = {}
    /\ scan = NoScan
    /\ \E path \in ChunkerPaths :
         \E content \in Texts(LinesFor(path), MaxFileLines) :
            cfile = File(path, content)
    /\ cout = NoOut
    /\ emb = NoEmb
    /\ idx = NewIndexer("stub")
    /\ disk = {}
    /\ saved = NoSaved
    /\ hist = NoHist
    /\ now = 0

\* The call c.chunker.ChunkFile(file, content).
CallChunkFile ==
    /\ ~cout.done
    /\ cout' = [done |-> TRUE,
                chunks |-> ChunkFile(cfile.path, cfile.content)]
    /\ UNCHANGED <<pc, line, nread, nwritten, resp, runErr, db, generator,
                   provider, apiKey, storeUp, chunks, wire, scan, cfile, emb, idx,
                   disk, saved, hist, now>>

NextChunk == CallChunkFile

SpecChunk == InitChunk /\ [][NextChunk]_vars

(***************************************************************************)
(* SpecStore: indexers of the two projects store fragments and clear their *)
(* project, while time passes.                                             *)
(***************************************************************************)
InitStore ==
    /\ ServerOff
    /\ storeUp = TRUE
    /\ chunks = {}
    /\ scan = NoScan
    /\ cfile = NoFile
    /\ cout = NoOut
    /\ emb = NoEmb
    /\ idx = NewIndexer("stub")
    /\ disk = {}
    /\ saved = NoSaved
    /\ hist = NoHist
    /\ now = 0

NextStore ==
    \/ StoreChunk
    \/ ClearExistingChunks
    \/ StoreDown
    \/ StoreBack
    \/ New
    \/ Tick

SpecStore == InitStore /\ [][NextStore]_vars

(***************************************************************************)
(* SpecIndex: the indexer of project ProjectID runs Index, up to MaxRuns   *)
(* times; between runs files are deleted and created.  An earlier run,     *)
(* without failure, indexed the one file the project had then; the store   *)
(* also holds a row of the other project.                                  *)
(***************************************************************************)
FirstRun ==
    LET frags == ChunkFile("main.go", FileText("main.go"))
    IN  { Row(ProjectID, frags[i], "stub", 0) : i \in DOMAIN frags }

OtherRows ==
    { Row(OtherProject, Chunk("a.yaml", "a", << Key(0, "a", 600) >>), "stub", 0) }

InitIndex ==
    /\ ServerOff
    /\ storeUp = TRUE
    /\ chunks = FirstRun \cup OtherRows
    /\ scan = NoScan
    /\ cfile = NoFile
    /\ cout = NoOut
    /\ emb = NoEmb
    /\ idx = NewIndexer("stub")
    /\ disk = {"main.go"}
    /\ saved = [written |-> {"stats.json", "manifest.json"},
                stats |-> Stats(1, Cardinality(FirstRun)),
                manifest |-> { [Path |-> "main.go",
                                Chunks |-> Cardinality(FirstRun)] }]
    /\ hist = [NoHist EXCEPT
                 !.indexed = {"main.go"},
                 !.snaps = { Snapshot(0, {"main.go"}, TRUE, FirstRun) }]
    /\ now = 0

NextIndex ==
    \/ IndexScan
    \/ IndexClear
    \/ IndexReadFile
    \/ IndexStoreChunk
    \/ IndexFileDone
    \/ IndexSaveStats
    \/ IndexSaveManifest
    \/ DeleteFile
    \/ CreateFile
    \/ StoreDown
    \/ StoreBack

SpecIndex == InitIndex /\ [][NextIndex]_vars

(***************************************************************************)
(* SpecEmbed: the generators alone.                                        *)
(***************************************************************************)
InitEmbed == InitStore

NextEmbed == CallEmbed

SpecEmbed == InitEmbed /\ [][NextEmbed]_vars

(***************************************************************************)
(* SpecScan: scanFiles alone, over the configurations of ScanConfigs.      *)
(***************************************************************************)
InitScan == InitStore

NextScan == CallScanFiles

SpecScan == InitScan /\ [][NextScan]_vars

(***************************************************************************)
(* SpecMix: the indexer of project ProjectID runs Index while the server   *)
(* of the same project answers searches.  Every statement either of them   *)
(* sends to the store is one step, so the steps of a run and the searches  *)
(* interleave in any order.  An earlier run indexed main.go; since then    *)
(* main.go was deleted and a.yaml and b.yaml were created.                 *)
(***************************************************************************)
\* The searches the client sends: a query, with or without a limit.
MixLines == { l \in Lines : l.name = "search" /\ l.args.query = "q" }

InitMix ==
    /\ pc = "scan"
    /\ line = NoLine
    /\ nread = 0
    /\ nwritten = 0
    /\ resp = NoResp
    /\ runErr = ""
    /\ db = "nil"
    /\ generator = "nil"
    /\ provider = "ollama"
    /\ apiKey = FALSE
    /\ wire = {}
    /\ storeUp = TRUE
    /\ chunks = FirstRun \cup OtherRows
    /\ scan = NoScan
    /\ cfile = NoFile
    /\ cout = NoOut
    /\ emb = NoEmb
    /\ idx = NewIndexer("stub")
    /\ disk = {"a.yaml", "b.yaml"}
    /\ saved = [written |-> {"stats.json", "manifest.json"},
                stats |-> Stats(1, Cardinality(FirstRun)),
                manifest |-> { [Path |-> "main.go",
                                Chunks |-> Cardinality(FirstRun)] }]
    /\ hist = [NoHist EXCEPT
                 !.indexed = {"main.go"},
                 !.snaps = { Snapshot(0, {"main.go"}, TRUE, FirstRun) }]
    /\ now = 0

\* scanner.Scan delivers a search.
ScanSearch == ScanLine /\ line' \in MixLines

NextMix ==
    \/ IndexScan
    \/ IndexClear
    \/ IndexReadFile
    \/ IndexStoreChunk
    \/ IndexFileDone
    \/ IndexSaveStats
    \/ IndexSaveManifest
    \/ ScanSearch
    \/ HandleRequest

SpecMix == InitMix /\ [][NextMix]_vars

(***************************************************************************)
(* Claims.                                                                 *)
(***************************************************************************)
\* The step of Run that handles the line under processing and writes its
\* response.
Handled == pc = "handle" /\ pc' = "scan"

\* The line under processing is a tools/call of tool name.
Calls(name) ==
    line.json = "ok" /\ line.method = "tools/call" /\ line.params = "obj"
    /\ line.name = name

\* C1: the server writes exactly one response per input line the scanner
\* delivered, malformed lines included; the k-th response answers the k-th
\* line (it carries the id of that request, or no id when the line did not
\* parse), and while line k is processed exactly k-1 responses are written.
C1_OneResponsePerLine ==
    /\ pc = "handle" => nwritten = nread - 1 /\ resp = NoResp
    /\ pc # "handle" => nwritten = nread
    /\ resp # NoResp =>
         /\ resp.line = nwritten
         /\ resp.id = IF resp.msg = "invalid JSON" THEN 0 ELSE resp.line

C1_Witness ==
    pc = "scan" /\ nread = 2 /\ nwritten = 2 /\ resp.msg = "invalid JSON"

\* C2: no single request stops the server, whatever its content or length:
\* once the request loop runs, Run ends only at the end of the input (it
\* returns nil), never with an error.
C2_StopsOnlyAtEndOfInput ==
    pc = "failed" => runErr = "failed to load config"

\* C3: the four failure classes on the wire (malformed line, unknown method,
\* malformed tools/call params, tool failure) have pairwise distinct codes:
\* two error responses of different classes never carry the same code.
C3_DistinctCodes ==
    \A x, y \in wire : x.class # y.class => x.code # y.code

C3_Witness ==
    /\ { x.class : x \in wire } = {"parse", "params", "tool"}
    /\ Cardinality({ x.code : x \in wire }) = 3

\* C4: a caller mistake and a downstream failure never get the same code.
C4_CallerVsDownstream ==
    \A x, y \in wire :
        x.cause = "caller" /\ y.cause = "downstream" => x.code # y.code

\* C5: a search whose query is absent, not a string or empty is answered with
\* an error, without any call to the embedding provider or to the store and
\* without building a handle; the server is then ready for the next line.
C5_BadQueryRejectedEarly ==
    [][ (Handled /\ Calls("search")
           /\ (line.args.queryT # "str" \/ line.args.query = ""))
        => /\ resp'.kind = "error"
           /\ resp'.id = nread
           /\ resp'.contacted = {}
           /\ db' = db /\ generator' = generator
           /\ runErr' = "" ]_vars

C5_Witness ==
    /\ pc = "scan" /\ resp.kind = "error" /\ resp.tool = "search"
    /\ resp.msg = "query is required" /\ resp.contacted = {}

\* C6: search never fails because of the value of limit: the LIMIT handed to
\* the store is never above 20, and when the store answers the query of a
\* search does not fail.
C6_LimitNeverFails ==
    [][ (Handled /\ Calls("search") /\ resp'.queried)
        => /\ resp'.storeLimit <= MaxSearchLimit
           /\ (storeUp => resp'.kind = "result") ]_vars

\* C7: every fragment a search returns is a row of the project of the
\* server.
C7_SearchWithinProject ==
    (resp.tool = "search" /\ resp.kind = "result")
    => \A i \in DOMAIN resp.rows : resp.rows[i].id[1] = ProjectID

C7_Witness ==
    /\ resp.tool = "search" /\ resp.kind = "result" /\ Len(resp.rows) >= 2
    /\ \E r \in chunks : r.project_id = OtherProject

C9_WholePathReturned ==
    [][ (Handled /\ Calls("get_context") /\ resp'.kind = "result"
           /\ resp'.symbol # "")
        => LET ofPath == { r \in chunks :
                             r.project_id = ProjectID /\ r.path = resp'.path }
           IN  resp'.storeLimit >= Cardinality(ofPath)
               => \A r \in ofPath : InSeq(SearchResult(r), resp'.rows) ]_vars

\* C10: project_info is answered with a result in every state of the store;
\* the status of the payload is "connected" exactly when the store answers,
\* "not connected" when there was no handle and the store does not answer,
\* "connection lost" when there was a handle and the store does not answer.
C10_ProjectInfoNeverFails ==
    [][ (Handled /\ Calls("project_info"))
        => /\ resp'.kind = "result"
           /\ resp'.id = nread
           /\ resp'.status = IF storeUp THEN "connected"
                             ELSE IF db = "nil" THEN "not connected"
                             ELSE "connection lost"
           /\ runErr' = "" ]_vars

C10_Witness ==
    /\ pc = "scan" /\ resp.tool = "project_info" /\ resp.kind = "result"
    /\ resp.status = "connection lost"

(***************************************************************************)
(* Claims about the chunker (SpecChunk).                                   *)
(***************************************************************************)
\* The symbols of the fragments returned, in order.
Symbols == [ i \in DOMAIN cout.chunks |-> cout.chunks[i].symbol ]

\* C15: the chunker emits no fragment with empty content: an empty file
\* yields no fragment, whatever its type, and every fragment of any file is
\* non-empty after trimming.
C15_NoEmptyFragment ==
    cout.done =>
        /\ cfile.content = EmptyText => cout.chunks = <<>>
        /\ \A i \in DOMAIN cout.chunks :
              TrimSpace(cout.chunks[i].content) # EmptyText

\* The file goes to the size-based strategy, with this maximum size.
SizeBased ==
    \/ cfile.path \in {"src/app.js", "notes.txt", "main.go"}
    \/ /\ cfile.path = "src/A.php"
       /\ \A i \in DOMAIN cfile.content : cfile.content[i].kind # "class"

MaxSizeOf(path) ==
    CASE path = "src/app.js" -> JavaScriptMaxSize
      [] path = "src/A.php" -> PHPMaxSize
      [] path = "notes.txt" -> TextMaxSize
      [] OTHER -> GenericMaxSize

\* C16: every fragment of the size-based strategy is the whole file or a run
\* of whole lines of the file, trimmed; it is at most the maximum size long,
\* unless it is one single line of the file that alone is longer.
C16_SizeBound ==
    (cout.done /\ SizeBased) =>
        \A i \in DOMAIN cout.chunks :
            LET c == cout.chunks[i].content
                t == cfile.content
            IN  /\ \/ c = t
                   \/ \E a \in 1..(Len(t) + 1), b \in 0..Len(t) :
                         c = TrimSpace(SubSeq(t, a, b))
                /\ \/ TextLen(c) <= MaxSizeOf(cfile.path)
                   \/ \E k \in DOMAIN t :
                         /\ LineLen(t[k]) > MaxSizeOf(cfile.path)
                         /\ c = TrimSpace(<< t[k] >>)

C16_Witness ==
    /\ cout.done /\ cfile.path = "main.go"
    /\ \E i, j \in DOMAIN cout.chunks :
         /\ Len(cout.chunks[i].content) >= 2
         /\ TextLen(cout.chunks[i].content) > 1400
         /\ TextLen(cout.chunks[j].content) > GenericMaxSize

\* The lines of the file that match the class and the function pattern.
ClassLines == { i \in DOMAIN cfile.content : cfile.content[i].kind = "class" }
FuncLines == { i \in DOMAIN cfile.content : cfile.content[i].kind = "func" }

\* The text of the function declared at line i: from where its match starts
\* to where the match of the next function starts, or to the end of the file.
FuncText(i) ==
    LET t == cfile.content
        later == { k \in FuncLines : k > i }
    IN  Slice(t, FuncStart(t, i),
              IF later = {} THEN Len(t) + 1
              ELSE FuncStart(t, CHOOSE k \in later : \A m \in later : k <= m))

\* The text of the class declared at line i, the only class of the file.
ClassText(i) == Slice(cfile.content, i, Len(cfile.content) + 1)

\* A PHP file with one class A that has two functions, f1 then f2, each at
\* most the size budget long.
OneClassTwoFunctions ==
    /\ cfile.path = "src/A.php"
    /\ Cardinality(ClassLines) = 1
    /\ Cardinality(FuncLines) = 2
    /\ \E c \in ClassLines, f, g \in FuncLines :
         /\ c < f /\ f < g
         /\ cfile.content[f].name = "f1" /\ cfile.content[g].name = "f2"
    /\ \A f \in FuncLines : TextLen(FuncText(f)) <= PHPMaxSize

\* C17 as stated: such a file yields exactly the two fragments A::f1 and
\* A::f2, whatever the size of the class.
C17_AlwaysTwoFragments ==
    (cout.done /\ OneClassTwoFunctions) => Symbols = << "A::f1", "A::f2" >>

\* C17, amended: such a file yields exactly the two fragments A::f1 and
\* A::f2 when the text of the class is at least the size budget long, and
\* one fragment named A when it is shorter.
C17_TwoFragmentsOfLargeClass ==
    (cout.done /\ OneClassTwoFunctions) =>
        Symbols = IF \E c \in ClassLines : TextLen(ClassText(c)) >= PHPMaxSize
                  THEN << "A::f1", "A::f2" >>
                  ELSE << "A" >>

C17_Witness ==
    /\ cout.done /\ OneClassTwoFunctions
    /\ \E c \in ClassLines : TextLen(ClassText(c)) >= PHPMaxSize
    /\ Symbols = << "A::f1", "A::f2" >>

\* The lines of the file that start a section, and their keys in order.
KeyLines(makefile) ==
    { i \in DOMAIN cfile.content : TopLevelKey(cfile.content[i], makefile) }

Keys(makefile) ==
    LET ks == SortedSeq(KeyLines(makefile))
    IN  [ i \in DOMAIN ks |-> cfile.content[ks[i]].name ]

\* A section-based file with three top-level keys: it starts with a key, it
\* has three key lines with different keys, and its other lines are indented
\* or empty.
ThreeTopLevelKeys ==
    /\ cfile.path \in {"a.yaml", "Makefile"}
    /\ 1 \in KeyLines(cfile.path = "Makefile")
    /\ Cardinality(KeyLines(cfile.path = "Makefile")) = 3
    /\ Cardinality({ cfile.content[i].name :
                       i \in KeyLines(cfile.path = "Makefile") }) = 3
    /\ \A i \in DOMAIN cfile.content :
         \/ i \in KeyLines(cfile.path = "Makefile")
         \/ cfile.content[i].ind > 0
         \/ LineLen(cfile.content[i]) = 0

\* C18: a section-based file with three top-level keys yields exactly three
\* fragments, the i-th having the i-th key as symbol, whatever its size.
C18_ThreeKeysThreeFragments ==
    (cout.done /\ ThreeTopLevelKeys) => Symbols = Keys(cfile.path = "Makefile")

\* A compose file: its first line is services:, and its other lines are the
\* entries under services (two spaces, a name, a colon) and their settings
\* (indented deeper); it has at least one entry.
ServiceLines ==
    { i \in DOMAIN cfile.content :
        cfile.content[i].ind = 2 /\ cfile.content[i].colon }

ComposeFile ==
    /\ cfile.path \in {"docker-compose.yml", "compose.yaml"}
    /\ cfile.content[1] = Key(0, "services", 9)
    /\ ServiceLines # {}
    /\ \A i \in 2..Len(cfile.content) : cfile.content[i].ind >= 2

\* C19: a compose file yields one fragment per entry under services, named
\* by the service, in order.
C19_ComposeByService ==
    (cout.done /\ ComposeFile) =>
        LET ss == SortedSeq(ServiceLines)
        IN  Symbols = [ i \in DOMAIN ss |-> cfile.content[ss[i]].name ]

\* C20: every Embed (stub, OpenAI, Ollama) returns an error or a vector with
\* at least one component, whatever the provider answers: never an empty
\* vector together with no error.
C20_NeverEmptyVector ==
    emb.called => (emb.out.err # "" \/ emb.out.vec >= 1)

\* Rows r and q have the same (project_id, content_hash).
SameKey(r, q) == r.project_id = q.project_id /\ r.content = q.content

\* No two rows share (project_id, content_hash).
UniqueKey(table) == \A r, q \in table : SameKey(r, q) => r = q

\* A step stores a fragment whose key the table already holds.
StoresExisting ==
    /\ chunks' # chunks
    /\ \E r \in chunks : \E q \in chunks' \ chunks : SameKey(r, q)

\* C11 as stated: storing a fragment whose (project_id, content_hash) exists
\* creates no second row and changes only embedding and embedding_model of
\* the existing row: every other column, updated_at included, stays as
\* first written; no two rows ever share (project_id, content_hash).
C11_OnlyEmbeddingChanges ==
    [][ /\ UniqueKey(chunks')
        /\ StoresExisting =>
              /\ Cardinality(chunks') = Cardinality(chunks)
              /\ \A r \in chunks : \E q \in chunks' :
                    q = [r EXCEPT !.embedding = q.embedding,
                                  !.embedding_model = q.embedding_model]
      ]_vars

\* C11, amended: storing a fragment whose (project_id, content_hash) exists
\* creates no second row and changes only embedding, embedding_model and
\* updated_at of the existing row, leaving created_at, path, symbol and
\* content as first written; no two rows ever share
\* (project_id, content_hash).
C11_UpsertFrame ==
    [][ /\ UniqueKey(chunks')
        /\ StoresExisting =>
              /\ Cardinality(chunks') = Cardinality(chunks)
              /\ \A r \in chunks : \E q \in chunks' :
                    q = [r EXCEPT !.embedding = q.embedding,
                                  !.embedding_model = q.embedding_model,
                                  !.updated_at = q.updated_at]
      ]_vars

\* A row first written for one file and one model was stored again, later,
\* from another file with another model: it keeps its path and created_at
\* and carries the new model.
C11_Witness ==
    \E r \in chunks :
        /\ r.project_id = ProjectID
        /\ r.content = "c2"
        /\ r.path = "a.yaml"
        /\ r.created_at = 0
        /\ r.updated_at = 1
        /\ r.embedding_model = "nomic-embed-text"
        /\ r.embedding = Embedding("nomic-embed-text", "c2")

\* C12: indexing is idempotent: two runs of the project over the same files,
\* neither with a failing call, leave the same number of rows and the same
\* set of content hashes.
C12_Idempotent ==
    \A s, t \in hist.snaps :
        (s.clean /\ t.clean /\ s.scanned = t.scanned) =>
            (s.count = t.count /\ s.hashes = t.hashes)

\* Two runs in a row, without failure, indexed the same two files, one of
\* which is a fragment of the other, after an earlier run had indexed
\* another file.
C12_Witness ==
    \E s, t \in hist.snaps :
        /\ s.run = 1
        /\ t.run = 2
        /\ s.clean /\ t.clean
        /\ s.scanned = {"a.yaml", "b.yaml"}
        /\ t.scanned = s.scanned
        /\ t.count = 2

\* The files that an earlier run stored rows of and that the current run did
\* not find.
DeletedFiles == hist.indexed \ hist.scanned

\* C13: when a run completes after a file indexed by an earlier run was
\* deleted, the store holds no row of the project with the path of that
\* file.
C13_NoStaleFragment ==
    idx.pc = "done" =>
        \A r \in chunks :
            r.project_id = ProjectID => r.path \notin DeletedFiles

\* A run completed after two files indexed by earlier runs were deleted, and
\* stored rows of the file it found.
C13_Witness ==
    /\ idx.pc = "done"
    /\ hist.run = 2
    /\ DeletedFiles = {"main.go", "a.yaml"}
    /\ \E r \in chunks : r.project_id = ProjectID /\ r.path = "b.yaml"

\* The file loop of Index is under way.
InLoop ==
    \/ idx.pc = "chunk"
    \/ idx.pc = "file" /\ idx.fi <= Len(idx.files)

\* The number of fragments of the files of a run that were read.
RECURSIVE FragmentsOf(_, _)
FragmentsOf(files, ok) ==
    IF files = <<>> THEN 0
    ELSE (IF Head(files) \in ok
          THEN Len(ChunkFile(Head(files), FileText(Head(files))))
          ELSE 0) + FragmentsOf(Tail(files), ok)

\* The loop reached every file and handed every fragment of the files it
\* read to storeChunk, and stats.json holds the counts of what succeeded.
StatsReported ==
    /\ hist.visited = Len(idx.files)
    /\ hist.handed = FragmentsOf(idx.files, hist.okFiles)
    /\ "stats.json" \in saved.written
    /\ saved.stats = Stats(hist.readOK, hist.storedOK)

\* manifest.json lists the files that were read, each with the number of its
\* fragments that were embedded and stored.
ManifestReported ==
    /\ "manifest.json" \in saved.written
    /\ saved.manifest = { [Path |-> p, Chunks |-> hist.storedBy[p]] :
                            p \in hist.okFiles }

\* C14: a file that cannot be read and a fragment whose embedding or store
\* call fails do not abort the run: a step of the file loop never ends the
\* run, the loop reaches every file and hands every fragment of the files
\* read to storeChunk, and the run persists statistics and manifest with
\* the counts of what succeeded.
C14_SkipAndFinish ==
    /\ [][InLoop => idx'.pc \in {"file", "chunk"}]_vars
    /\ [](idx.pc \in {"manifest", "done"} => StatsReported)
    /\ [](idx.pc = "done" => ManifestReported)

\* A run over three files returned its statistics after one file could not
\* be read and some fragment, not the last, was not stored.
C14_Witness ==
    /\ idx.pc = "done"
    /\ Len(idx.files) = 3
    /\ hist.okFiles = {"a.yaml", "main.go"}
    /\ hist.storedBy["a.yaml"] = 1
    /\ hist.storedBy["main.go"] = 1
    /\ hist.handed = 3

\* C22: for every provider with which the index command builds an index
\* (stub, openai, ollama), a search that reaches the embedding of its query
\* uses the generator of that provider: it never fails to initialize the
\* embeddings.
C22_SearchUsesIndexProvider ==
    (resp.tool = "search" /\ resp.msg # "query is required"
        /\ runIndex(provider, apiKey).ok) =>
            /\ resp.msg # "failed to initialize embeddings"
            /\ generator = runIndex(provider, apiKey).generator

\* A step of the server: Run moves on.
ServerStep == pc' # pc

\* C23: the server is read-only: no request (initialize, tools/list, search,
\* get_context, project_info, unknown or malformed) inserts, updates or
\* deletes a row: the table after each step of the server is the table
\* before it.
C23_ServerReadOnly == [][ServerStep => chunks' = chunks]_vars

\* A search returned rows of the store, and the store still holds them.
C23_Witness ==
    /\ resp.kind = "result"
    /\ resp.tool = "search"
    /\ Len(resp.rows) >= 2
    /\ \A i \in DOMAIN resp.rows :
          \E r \in chunks : SearchResult(r) = resp.rows[i]

\* The step answers a request that parsed, of the given methods.
AnswersMethod(methods) ==
    pc = "handle" /\ pc' = "scan" /\ line.json = "ok" /\ line.method \in methods

\* The step answers a call of one of the given tools.
AnswersTool(tools) ==
    AnswersMethod({"tools/call"}) /\ line.params = "obj" /\ line.name \in tools

\* C25: constructing the handler and answering initialize or tools/list
\* establish no store connection and no generator; a handle is established
\* only by a tool call that needs it (the connection by search, get_context
\* and project_info, the generator by search), which establishes the
\* connection whenever it reaches a store that answers; once established a
\* handle is never changed.
C25_LazyHandles ==
    [][ /\ (pc = "start") => (db' = "nil" /\ generator' = "nil")
        /\ AnswersMethod({"initialize", "tools/list"}) =>
              (db' = db /\ generator' = generator)
        /\ db' # db =>
              (db = "nil" /\ AnswersTool({"search", "get_context", "project_info"}))
        /\ generator' # generator =>
              (generator = "nil" /\ AnswersTool({"search"}))
        /\ (AnswersTool({"search", "get_context", "project_info"})
              /\ "store" \in resp'.contacted /\ storeUp) => db' # "nil"
      ]_vars

\* A get_context is answered over the connection that an earlier search
\* established together with the generator.
C25_Witness ==
    /\ nread = 3
    /\ pc = "scan"
    /\ resp.kind = "result"
    /\ resp.tool = "get_context"
    /\ db = "open"
    /\ generator = "ollama"

\* The rows of the project of the indexer.
ProjectRows == { r \in chunks : r.project_id = ProjectID }

\* C27: after a run in which no read, embedding or store call failed, the
\* store holds, for every scanned file that has at least one fragment, a row
\* of the project with the path of that file, also when two files hold
\* identical fragments.
C27_EveryIndexedFileHasRow ==
    (idx.pc = "done" /\ hist.clean) =>
        \A f \in hist.scanned :
            Len(ChunkFile(f, FileText(f))) >= 1 =>
                \E r \in ProjectRows : r.path = f

\* C28: after a run in which no read, embedding or store call failed,
\* ChunksStored of the statistics of the run is the number of rows the store
\* holds for the project.
C28_ChunksStoredIsRowCount ==
    (idx.pc = "done" /\ hist.clean) =>
        saved.stats.ChunksStored = Cardinality(ProjectRows)

\* C24: in every run the store is touched only after the scan succeeded:
\* the rows of the project are cleared exactly once, after the scan and
\* before the first fragment is handed to storeChunk; stats.json and
\* manifest.json are written only after the last file was processed; a run
\* whose scan fails ends without having changed the store.
C24_RunOrder ==
    /\ [][ /\ chunks' # chunks => idx.pc \in {"clear", "chunk"}
           /\ hist'.cleared # hist.cleared =>
                 \/ idx.pc = "clear" /\ hist.handed = 0
                                     /\ hist.cleared = 0 /\ hist'.cleared = 1
                 \/ idx.pc \notin {"clear", "file", "chunk", "manifest"}
                       /\ hist'.cleared = 0
           /\ saved' # saved =>
                 /\ idx.pc \in {"file", "manifest"}
                 /\ idx.fi > Len(idx.files)
                 /\ hist.visited = Len(idx.files)
           /\ (idx.pc \in {"idle", "done", "failed"} /\ idx'.pc = "failed") =>
                 chunks' = chunks
         ]_vars
    /\ [](idx.pc \in {"file", "chunk", "manifest", "done"} => hist.cleared = 1)
    /\ [](hist.handed > 0 => hist.cleared = 1)

\* A second run cleared the rows of the first, stored three fragments of
\* two files and wrote its statistics and manifest.
C24_Witness ==
    /\ idx.pc = "done"
    /\ hist.run = 2
    /\ hist.cleared = 1
    /\ hist.storedOK = 3
    /\ saved.stats = Stats(2, 3)

\* The elements of a sequence.
Range(f) == { f[i] : i \in DOMAIN f }

\* The files of the project directory that lie under an include path that
\* is a directory and start with no exclude prefix.
WalkedFiles(cfg) ==
    { Tree[i].path : i \in { j \in DOMAIN Tree :
        /\ ~Tree[j].isDir
        /\ \E ip \in Range(cfg.includePaths) :
              Stat(ip) = "dir" /\ Under(TrimSuffix(ip), Tree[j].path)
        /\ \A x \in cfg.excludePaths :
              ~HasPrefix(Tree[j].path, TrimSuffix(x)) } }

\* The include paths that are existing files.
IncludedFiles(cfg) == { ip \in Range(cfg.includePaths) : Stat(ip) = "file" }

C29_NoFileTwice ==
    (scan.called /\ scan.out.ok) =>
        \A i, j \in DOMAIN scan.out.files :
            scan.out.files[i] = scan.out.files[j] => i = j

\* A line without the spaces it starts with, which TrimSpace takes from the
\* first line of a fragment.
Stripped(l) == [l EXCEPT !.ind = 0]

\* The number of positions of text t that hold line l, indentation aside.
Occurrences(t, l) ==
    Cardinality({ i \in DOMAIN t : Stripped(t[i]) = Stripped(l) })

\* The number of positions of the fragments from position k on that hold
\* line l.
RECURSIVE OccurrencesInChunks(_, _, _)
OccurrencesInChunks(cs, k, l) ==
    IF k > Len(cs) THEN 0
    ELSE Occurrences(cs[k].content, l) + OccurrencesInChunks(cs, k + 1, l)

\* C30: chunking loses no text: every non-blank line of the file is
\* contained in at least one fragment (the fragments hold every non-blank
\* line at least as often as the file does).
C30_NoTextLost ==
    cout.done =>
        \A i \in DOMAIN cfile.content :
            cfile.content[i].body > 0 =>
                OccurrencesInChunks(cout.chunks, 1, cfile.content[i])
                    >= Occurrences(cfile.content, cfile.content[i])

(***************************************************************************)
(* Searches during an indexing run.                                        *)
(***************************************************************************)
\* The step answers a search with rows.
SearchAnswered ==
    pc = "handle" /\ resp'.tool = "search" /\ resp'.kind = "result"

\* C26: while a run of Index and searches of the same project interleave,
\* every fragment a search returns is a row of the project that is in the
\* store when the query executes, and no two fragments of one result have
\* the same (project_id, content_hash).
C26_SearchSeesStoredRows ==
    [][SearchAnswered =>
         /\ \A i \in DOMAIN resp'.rows :
              \E r \in chunks : /\ r.project_id = ProjectID
                                /\ SearchResult(r) = resp'.rows[i]
         /\ \A i, j \in DOMAIN resp'.rows :
              i # j => resp'.rows[i].id # resp'.rows[j].id]_vars

\* A search that asked for two rows got one, of a.yaml, while the first run
\* after a.yaml appeared is still in its loop: it saw the index between the
\* clear and the end of the rebuild.
C26_Witness ==
    /\ hist.run = 1 /\ hist.cleared = 1 /\ InLoop
    /\ resp.tool = "search" /\ resp.kind = "result"
    /\ resp.storeLimit >= 2
    /\ Len(resp.rows) = 1
    /\ resp.rows[1].path = "a.yaml"
    /\ \E r \in chunks : r.project_id = OtherProject

====
